---------------------------- MODULE Spec2Model ----------------------------
(***************************************************************************)
(* Model of the ADS-B codec and real-data replay engine documented in      *)
(* PERFORMANCE_OPTIMIZATION.md (CPRDecoder, RealAdsbDecoder,               *)
(* RealDataReplayEngine).                                                  *)
(*                                                                         *)
(* Numbers.  A hex message is a sequence of digit values 0..15, most       *)
(* significant digit first.  An angle is kept as an exact fraction         *)
(* [num, den] in lowest terms that stands for 360*num/den degrees: every   *)
(* latitude or longitude the decoder produces is 360*n/(z*131072) for a    *)
(* zone count z, and a receiver position given in 1/10000 degree is        *)
(* 360*v/3600000.  The model computes with real-number arithmetic; the     *)
(* rounding of IEEE doubles is not modelled.  Time is in milliseconds.     *)
(***************************************************************************)
EXTENDS Integers, Naturals, Sequences, FiniteSets, TLC

VARIABLES
    cprCache,          \* CPRDecoder.cprCache of the decoder: icao -> entry
    refLat,            \* RealAdsbDecoder.refLat
    refLon,            \* RealAdsbDecoder.refLon
    now,               \* the wall clock read by Date.now()
    result,            \* the last call of decode: its argument, what it returned,
                       \* and which decode resolved the position
    nDecoded,          \* number of decode calls made so far (bounded)
    seen,              \* history: for each ICAO, the parities of the position
                       \* frames decoded since the cache was last cleared
    solo,              \* history: for each ICAO, the cache of a decoder that is
                       \* given only that ICAO's messages, at the same times
    pairIn,            \* order experiment: the even and the odd frame and the
                       \* time between them
    evenLast,          \* order experiment: decodeGlobal's result, even frame last
    oddLast,           \* order experiment: decodeGlobal's result, odd frame last
    cacheB,            \* second decoder (own clock): its cprCache
    nowB,              \* second decoder: its wall clock
    resultB,           \* second decoder: what its last call of decode returned
    messages,          \* RealDataReplayEngine.messages (their hexMessage)
    currentIndex,      \* RealDataReplayEngine.currentIndex
    isPlaying,         \* RealDataReplayEngine.isPlaying
    isPaused,          \* RealDataReplayEngine.isPaused
    playbackInterval,  \* RealDataReplayEngine.playbackInterval: Null, or the
                       \* batch size of the running timer
    messagesPerSecond, \* RealDataReplayEngine.messagesPerSecond
    onMessageCalls,    \* history: the hex messages RealDataReplayEngine handed to
                       \* onMessage since the last loadMessages
    onFinishedCalls,   \* history: calls of onFinished since the last loadMessages
    playedAt,          \* history: the currentIndex the observed play() found, or Null
    callIn,            \* codec call: the operation and its arguments
    callOut,           \* codec call: what the operation returned or threw
    recorder,          \* Map.vue's AdsbRecorder: isRecording, recordingStartTime,
                       \* events
    replayEngine,      \* Map.vue's ReplayEngine: session, state,
                       \* currentEventIndex, playbackStartTime, pausedAt,
                       \* playbackSpeed, animationFrameId
    wallClock,         \* Date.now() as the recorder and the replay engine read it
    mode,              \* Map.vue mode: simulation, recording or replay
    simulationInterval,\* Map.vue simulationInterval: Null or the running timer
    tauriUnlisten,     \* Map.vue tauriUnlisten: Null or the adsb-batch listener
    aircrafts,         \* Map.vue aircrafts: the ICAOs on display
    playbackCurrentTime, \* Map.vue playbackCurrentTime, set by the progress callback
    storage,           \* the session the last stopRecording stored, or Null
    passed,            \* history: the hex strings handed to recordMessage since
                       \* the last startRecording
    delivered,         \* history: the events handed to the message callback
                       \* since the session was loaded
    finishCount,       \* history: calls of the finish callback since the load
    nCommands,         \* number of replay commands given so far (bounded)
    stoppedAt,         \* history: where stopReplay stopped a running replay
    appliedBy,         \* history: what last wrote aircrafts (timer, backend,
                       \* replay, rebuild, clear)
    trajectories       \* Map.vue trajectories: for each ICAO the timestamps of
                       \* the points of its trajectory (none: no trajectory)

decoderVars == <<cprCache, refLat, refLon, now, result, nDecoded, seen, solo>>

orderVars == <<pairIn, evenLast, oddLast>>

secondVars == <<cacheB, nowB, resultB>>

engineVars == <<messages, currentIndex, isPlaying, isPaused, playbackInterval,
                messagesPerSecond>>

observedVars == <<onMessageCalls, onFinishedCalls, playedAt>>

callVars == <<callIn, callOut>>

sessionVars == <<recorder, replayEngine, wallClock, mode, simulationInterval,
                 tauriUnlisten, aircrafts, playbackCurrentTime, storage, passed,
                 delivered, finishCount, nCommands, stoppedAt, appliedBy,
                 trajectories>>

codecVars == <<decoderVars, orderVars, secondVars, engineVars, observedVars, callVars>>

vars == <<codecVars, sessionVars>>

-----------------------------------------------------------------------------
(* Bounds of the model *)

MaxDecodes == 2
MaxTicks == 2
MaxInterleaved == 3
MaxCommands == 3
MaxFrames == 1
MaxRecorded == 2

-----------------------------------------------------------------------------
(* Integer helpers standing for the JavaScript number operations *)

\* null and undefined; every optional value of the model is a record, so that
\* it can be compared with them
Null == [null |-> TRUE]

Undefined == [undefined |-> TRUE]

Abs(x) == IF x < 0 THEN -x ELSE x

Max(a, b) == IF a >= b THEN a ELSE b

Min(a, b) == IF a <= b THEN a ELSE b

\* Math.floor(a / b) for b > 0
FloorDiv(a, b) == IF a >= 0 THEN a \div b ELSE -((-a + b - 1) \div b)

\* The JavaScript remainder a % b for b > 0: it has the sign of a
TruncRem(a, b) == IF a >= 0 THEN a % b ELSE -((-a) % b)

RECURSIVE MulDivQR(_, _, _)
\* <<q, r>> with a*b = q*c + r and 0 <= r < c, for a >= 0, b >= 0, c > 0,
\* computed without forming the product a*b
MulDivQR(a, b, c) ==
    IF b = 0 THEN <<0, 0>>
    ELSE LET Carry(q2, r2) == <<q2 + (r2 \div c), r2 % c>>
             Double(h) == Carry(2 * h[1] + (IF b % 2 = 1 THEN a \div c ELSE 0),
                                2 * h[2] + (IF b % 2 = 1 THEN a % c ELSE 0))
         IN  Double(MulDivQR(a, b \div 2, c))

\* Math.floor(a * b / c) for b >= 0, c > 0
FloorMulDiv(a, b, c) ==
    LET Ceil(qr) == qr[1] + (IF qr[2] > 0 THEN 1 ELSE 0)
    IN  IF a >= 0 THEN MulDivQR(a, b, c)[1] ELSE -Ceil(MulDivQR(-a, b, c))

RECURSIVE GCD(_, _)
GCD(a, b) == IF b = 0 THEN a ELSE GCD(b, a % b)

\* the angle 360*num/den degrees, as a fraction in lowest terms
Angle(num, den) ==
    LET Reduce(g) == [num |-> num \div g, den |-> den \div g]
    IN  Reduce(GCD(Abs(num), den))

\* an angle given in units of 1/10000 degree
Deg4(v) == Angle(v, 3600000)

Pow2Table ==
    << 1, 2, 4, 8, 16, 32, 64, 128, 256, 512, 1024, 2048, 4096, 8192, 16384,
       32768, 65536, 131072, 262144, 524288, 1048576, 2097152, 4194304,
       8388608, 16777216, 33554432, 67108864, 134217728, 268435456,
       536870912, 1073741824 >>

\* 2^k for k in 0..30
Pow2(k) == Pow2Table[k + 1]

RECURSIVE Xor(_, _)
\* a ^ b on non-negative integers
Xor(a, b) ==
    IF a = 0 /\ b = 0 THEN 0
    ELSE ((a + b) % 2) + 2 * Xor(a \div 2, b \div 2)

-----------------------------------------------------------------------------
(* BigInt view of a hex string *)

\* hex digit number d (0 = least significant) of BigInt('0x' + hex)
HexDigit(hex, d) == IF d >= Len(hex) THEN 0 ELSE hex[Len(hex) - d]

RECURSIVE HexDigits(_, _, _)
\* the number made of the digits d, d+1, ..., d+count-1 of BigInt('0x' + hex)
HexDigits(hex, d, count) ==
    IF count = 0 THEN 0
    ELSE HexDigit(hex, d) + 16 * HexDigits(hex, d + 1, count - 1)

\* Number((msgInt >> shift) & (2^width - 1)), for width <= 24
HexBits(hex, shift, width) ==
    (HexDigits(hex, shift \div 4, ((shift + width + 3) \div 4) - (shift \div 4))
        \div Pow2(shift % 4)) % Pow2(width)

\* MeBits reading every field one bit too high
MeBits_OffByOne(hex, shift, width) == HexBits(hex, 25 + shift, Min(width, 56 - shift))

\* Number((me >> shift) & (2^width - 1)) where me = (msgInt >> 24n) & 0xFFFFFFFFFFFFFFn
MeBits(hex, shift, width) == HexBits(hex, 24 + shift, Min(width, 56 - shift))

-----------------------------------------------------------------------------
(* CPRDecoder *)

CPR_SCALE == 131072

PAIR_WINDOW_MS == 10000

\* D_LAT_EVEN = 360 / 60 and D_LAT_ODD = 360 / 59: a latitude zone is
\* 360 / LatZones(oddEven) degrees
LatZones(oddEven) == IF oddEven = 0 THEN 60 ELSE 59

NoFrame == Undefined

NoPos == Undefined

\* new Map()
EmptyCache == [k \in {} |-> Undefined]

\* the value of  this.cprCache.get(icao) || {}
EmptyEntry == [even |-> NoFrame, odd |-> NoFrame, last |-> NoPos]

\* CacheGet that answers with the entry of whichever aircraft the cache holds
CacheGet_AnyKey(cache, icao) ==
    IF DOMAIN cache = {} THEN EmptyEntry ELSE cache[CHOOSE k \in DOMAIN cache : TRUE]

CacheGet(cache, icao) == IF icao \in DOMAIN cache THEN cache[icao] ELSE EmptyEntry

\* this.cprCache.set(icao, entry)
CacheSet(cache, icao, entry) ==
    [k \in (DOMAIN cache) \cup {icao} |-> IF k = icao THEN entry ELSE cache[k]]

\* NL(lat) as a step function on the CPR grid.  For z = 60 (NLTableEven) and
\* z = 59 (NLTableOdd), entry k-1 of the table is the largest n >= 0 for which the source's formula
\*   floor(2*PI / acos(1 - (1 - cos(PI/30)) / cos(PI*lat/180)^2))
\* at lat = (360/z) * (n/131072) is at least k, for k = 2..59; its first entry
\* is the last grid point below 87 degrees, where the source returns 1.
NLTableEven ==
         << 1900543, 1890394, 1873355, 1854486, 1834827, 1814735, 1794366,
            1773797, 1753071, 1732210, 1711226, 1690127, 1668914, 1647587,
            1626143, 1604578, 1582887, 1561064, 1539102, 1516992, 1494728,
            1472298, 1449693, 1426903, 1403915, 1380718, 1357297, 1333639,
            1309728, 1285546, 1261075, 1236297, 1211187, 1185724, 1159881,
            1133629, 1106935, 1079765, 1052079, 1023832, 994973, 965444,
            935179, 904102, 872121, 839132, 805006, 769589, 732691, 694072,
            653423, 610336, 564248, 514349, 459394, 397284, 323926, 228730 >>

NLTableOdd ==
         << 1868868, 1858887, 1842133, 1823578, 1804247, 1784489, 1764460,
            1744234, 1723853, 1703339, 1682706, 1661958, 1641099, 1620127,
            1599040, 1577835, 1556506, 1535046, 1513450, 1491709, 1469815,
            1447759, 1425532, 1403121, 1380517, 1357706, 1334676, 1311412,
            1287899, 1264120, 1240057, 1215692, 1191001, 1165962, 1140550,
            1114735, 1088486, 1061769, 1034545, 1006768, 978390, 949353,
            919593, 889033, 857586, 825146, 791589, 756762, 720479, 682504,
            642533, 600164, 554844, 505776, 451737, 390663, 318527, 224918 >>

\* NL without Math.abs
NL_NoAbs(n, z) ==
    1 + Cardinality({k \in 1..58 :
                       n <= (IF z = 60 THEN NLTableEven ELSE NLTableOdd)[k]})

\* NL(lat) for lat = 360*n/(z*131072) degrees, z = 60 or 59
NL(n, z) ==
    1 + Cardinality({k \in 1..58 :
                       Abs(n) <= (IF z = 60 THEN NLTableEven ELSE NLTableOdd)[k]})

\* Math.floor(ref / d) + Math.floor(0.5 + (ref % d) / d - cpr / 131072)
\* for the zone width d = 360 / zones
LocalIndex(ref, zones, cpr) ==
    FloorDiv(ref.num * zones, ref.den)
      + FloorDiv((CPR_SCALE \div 2)
                   + FloorMulDiv(TruncRem(ref.num * zones, ref.den), CPR_SCALE, ref.den)
                   - cpr,
                 CPR_SCALE)

\* LatOutOfRange with the upper limit 80 degrees in place of 90
LatOutOfRange_Above80(n, z) == 4 * n < -(z * CPR_SCALE) \/ 9 * n > 2 * z * CPR_SCALE

\* if (lat < -90 || lat > 90) return null, for lat = 360*n/(z*131072)
LatOutOfRange(n, z) == 4 * n < -(z * CPR_SCALE) \/ 4 * n > z * CPR_SCALE

\* if (lon > 180) lon -= 360, for lon = 360*n/den
Wrap180(n, den) == IF 2 * n > den THEN n - den ELSE n

\* if (lon < -180) lon += 360, for lon = 360*n/den
WrapMinus180(n, den) == IF 2 * n < -den THEN n + den ELSE n

\* The position decodeLocal computes, or Null
LocalPosition(cprLat, cprLon, oddEven, rLat, rLon) ==
    LET Lon(ni) ==
            Angle(WrapMinus180(Wrap180(LocalIndex(rLon, ni, cprLon) * CPR_SCALE + cprLon,
                                       ni * CPR_SCALE),
                               ni * CPR_SCALE),
                  ni * CPR_SCALE)
        Pos(latNum, z) ==
            IF LatOutOfRange(latNum, z) THEN Null
            ELSE [lat |-> Angle(latNum, z * CPR_SCALE),
                  lon |-> Lon(Max(NL(latNum, z) - oddEven, 1))]
    IN  Pos(LocalIndex(rLat, LatZones(oddEven), cprLat) * CPR_SCALE + cprLat,
            LatZones(oddEven))

\* StoreFrame that keeps every frame under even
StoreFrame_AlwaysEven(entry, cprLat, cprLon, oddEven, time) ==
    [entry EXCEPT !.even = [lat |-> cprLat, lon |-> cprLon, time |-> time]]

\* The frame stored under even or odd
StoreFrame(entry, cprLat, cprLon, oddEven, time) ==
    IF oddEven = 0
    THEN [entry EXCEPT !.even = [lat |-> cprLat, lon |-> cprLon, time |-> time]]
    ELSE [entry EXCEPT !.odd = [lat |-> cprLat, lon |-> cprLon, time |-> time]]

\* updateCache without the assignments to lastLat and lastLon
updateCache_KeepLast(cache, icao, cprLat, cprLon, oddEven, lat, lon, time) ==
    CacheSet(cache, icao,
             StoreFrame(CacheGet(cache, icao), cprLat, cprLon, oddEven, time))

updateCache(cache, icao, cprLat, cprLon, oddEven, lat, lon, time) ==
    CacheSet(cache, icao,
             [StoreFrame(CacheGet(cache, icao), cprLat, cprLon, oddEven, time)
                EXCEPT !.last = [lat |-> lat, lon |-> lon]])

\* decodeLocal: the cache afterwards and the returned position
decodeLocal(cache, icao, cprLat, cprLon, oddEven, rLat, rLon, time) ==
    LET Return(pos) ==
            IF pos = Null THEN [cache |-> cache, pos |-> Null]
            ELSE [cache |-> updateCache(cache, icao, cprLat, cprLon, oddEven,
                                        pos.lat, pos.lon, time),
                  pos |-> pos]
    IN  Return(LocalPosition(cprLat, cprLon, oddEven, rLat, rLon))

\* PairExpired with the comparison >= in place of >
PairExpired_AtWindow(evenTime, oddTime) == Abs(evenTime - oddTime) >= PAIR_WINDOW_MS

\* Math.abs(cache.even.time - cache.odd.time) > 10000
PairExpired(evenTime, oddTime) == Abs(evenTime - oddTime) > PAIR_WINDOW_MS

\* j = Math.floor(59 * latEven - 60 * latOdd + 0.5)
GlobalLatIndex(evenLat, oddLat) ==
    FloorDiv(59 * evenLat - 60 * oddLat + (CPR_SCALE \div 2), CPR_SCALE)

\* if (lat >= 270) lat -= 360, for lat = 360*n/den
Rebase270(n, den) == IF 4 * n >= 3 * den THEN n - den ELSE n

\* D_LAT * ((j % zones) + cpr/131072), minus 360 if it is >= 270, as the
\* numerator n of 360*n/(zones*131072)
GlobalLatNum(j, zones, cpr) ==
    Rebase270(TruncRem(j, zones) * CPR_SCALE + cpr, zones * CPR_SCALE)

\* SelectLat with the two latitudes exchanged
SelectLat_Swapped(oddEven, latE, latO) == IF oddEven = 0 THEN latO ELSE latE

\* lat = oddEven === 0 ? latE : latO
SelectLat(oddEven, latE, latO) == IF oddEven = 0 THEN latE ELSE latO

\* ni = oddEven === 0 ? Math.max(nl, 1) : Math.max(nl - 1, 1)
GlobalNi(nl, oddEven) == IF oddEven = 0 THEN Max(nl, 1) ELSE Max(nl - 1, 1)

\* m = Math.floor(lonEven * (nl - 1) - lonOdd * nl + 0.5)
GlobalLonIndex(nl, evenLon, oddLon) ==
    FloorDiv(evenLon * (nl - 1) - oddLon * nl + (CPR_SCALE \div 2), CPR_SCALE)

\* The longitude of the global decode, for the chosen latitude's NL value
GlobalLon(nl, oddEven, evenLon, oddLon) ==
    LET Lon(ni, m, lonCpr) ==
            Angle(Wrap180(TruncRem(m, ni) * CPR_SCALE + lonCpr, ni * CPR_SCALE),
                  ni * CPR_SCALE)
    IN  Lon(GlobalNi(nl, oddEven), GlobalLonIndex(nl, evenLon, oddLon),
            IF oddEven = 0 THEN evenLon ELSE oddLon)

\* The fallback of decodeGlobal: local decode against the last resolved position
LocalFallback(cache, icao, cprLat, cprLon, oddEven, time) ==
    LET Return(r) == [cache |-> r.cache, pos |-> r.pos, via |-> "last"]
        With(last) ==
            IF last # NoPos
            THEN Return(decodeLocal(cache, icao, cprLat, cprLon, oddEven,
                                    last.lat, last.lon, time))
            ELSE [cache |-> cache, pos |-> Null, via |-> "none"]
    IN  With(CacheGet(cache, icao).last)

\* The global decode of a pair of frames: the position, or Null when the NL
\* values of the two candidate latitudes differ
GlobalPosition(even, odd, oddEven) ==
    LET Pos(n, z) ==
            [lat |-> Angle(n, z * CPR_SCALE),
             lon |-> GlobalLon(NL(n, z), oddEven, even.lon, odd.lon)]
        Check(latE, latO) ==
            IF NL(latE, 60) # NL(latO, 59) THEN Null
            ELSE Pos(SelectLat(oddEven, latE, latO), LatZones(oddEven))
        With(j) ==
            Check(GlobalLatNum(j, 60, even.lat), GlobalLatNum(j, 59, odd.lat))
    IN  With(GlobalLatIndex(even.lat, odd.lat))

\* decodeGlobal: the cache afterwards, the returned position, and the return
\* statement that produced it ("global", "last" for the local decode against
\* the last resolved position, "none" for return null)
decodeGlobal(cache, icao, cprLat, cprLon, oddEven, time) ==
    LET Global(cache1, entry, pos) ==
            IF pos = Null
            THEN LocalFallback(cache1, icao, cprLat, cprLon, oddEven, time)
            ELSE [cache |-> CacheSet(cache1, icao, [entry EXCEPT !.last = pos]),
                  pos |-> pos, via |-> "global"]
        Stored(cache1, entry) ==
            IF entry.even = NoFrame \/ entry.odd = NoFrame
            THEN LocalFallback(cache1, icao, cprLat, cprLon, oddEven, time)
            ELSE IF PairExpired(entry.even.time, entry.odd.time)
            THEN LocalFallback(cache1, icao, cprLat, cprLon, oddEven, time)
            ELSE Global(cache1, entry, GlobalPosition(entry.even, entry.odd, oddEven))
        With(entry) == Stored(CacheSet(cache, icao, entry), entry)
    IN  With(StoreFrame(CacheGet(cache, icao), cprLat, cprLon, oddEven, time))

\* clearCache that drops the stored frames but keeps the last positions
CPRDecoder_clearCache_KeepLast(cache) ==
    [k \in DOMAIN cache |-> [EmptyEntry EXCEPT !.last = cache[k].last]]

\* CPRDecoder.clearCache
CPRDecoder_clearCache(cache) == EmptyCache

\* CPRDecoder.getLastPosition
CPRDecoder_getLastPosition(cache, icao) ==
    IF icao \in DOMAIN cache /\ cache[icao].last # NoPos
    THEN cache[icao].last ELSE Null

-----------------------------------------------------------------------------
(* RealAdsbDecoder *)

\* private refLat = 22.5431, refLon = 114.0579, in units of 1/10000 degree
DEFAULT_REF_LAT == 225431

DEFAULT_REF_LON == 1140579

RECURSIVE ToHex(_, _)
\* n.toString(16).toUpperCase().padStart(width, '0') as a sequence of digit values
ToHex(n, width) ==
    IF width = 0 THEN << >> ELSE Append(ToHex(n \div 16, width - 1), n % 16)

\* the 64-entry charset of decodeIdentification
Charset ==
    << "#", "A", "B", "C", "D", "E", "F", "G", "H", "I", "J", "K", "L", "M", "N",
       "O", "P", "Q", "R", "S", "T", "U", "V", "W", "X", "Y", "Z", "#", "#", "#",
       "#", "#", " ", "#", "#", "#", "#", "#", "#", "#", "#", "#", "#", "#", "#",
       "#", "#", "#", "0", "1", "2", "3", "4", "5", "6", "7", "8", "9", "#", "#",
       "#", "#", "#", "#" >>

RECURSIVE TrimLeft(_)
TrimLeft(s) == IF s # << >> /\ Head(s) = " " THEN TrimLeft(Tail(s)) ELSE s

RECURSIVE TrimRight(_)
TrimRight(s) ==
    IF s # << >> /\ s[Len(s)] = " " THEN TrimRight(SubSeq(s, 1, Len(s) - 1)) ELSE s

\* String.prototype.trim on a sequence of characters
Trim(s) == TrimRight(TrimLeft(s))

decodeIdentification(hex, typeCode) ==
    [type |-> "identification",
     callsign |-> Trim([i \in 1..8 |-> Charset[MeBits(hex, 42 - (i - 1) * 6, 6) + 1]]),
     category |-> (typeCode - 1) * 8 + MeBits(hex, 48, 3)]

\* grayToBinary: binary = gray ^ (gray >> 1) ^ (gray >> 2) ^ ... until the
\* shifted mask is 0
RECURSIVE GrayFold(_, _)
GrayFold(binary, mask) ==
    IF mask = 0 THEN binary ELSE GrayFold(Xor(binary, mask), mask \div 2)

grayToBinary(gray, bits) == GrayFold(gray, gray \div 2)

\* bit k of a small number
Bit(n, k) == (n \div Pow2(k)) % 2

\* alt100: the 100 ft increment for the Gray-decoded C group
Gillham100(c) == IF c <= 4 THEN c * 100 ELSE (8 - c) * 100

\* const gillham100Table = { 0: 0, 1: 100, 2: 200, 3: 300, 4: 400, 5: -100,
\* 6: -200, 7: -300 }, declared by decodeGillham and not read by it
gillham100Table == <<0, 100, 200, 300, 400, -100, -200, -300>>

\* a range check that lets every altitude through
GillhamValid_NoCheck(altitude) == altitude

\* if (altitude < -1200 || altitude > 126700) return 0
GillhamValid(altitude) ==
    IF altitude < -1200 \/ altitude > 126700 THEN 0 ELSE altitude

\* bits C1(11) A1(10) C2(9) A2(8) C4(7) A4(6) Q(5) B1(4) D1(3) B2(2) D2(1) B4(0);
\* grayD = D1 D2 B4, grayC = C1 C2 C4; the A and B groups do not enter the result
decodeGillham(altBits) ==
    GillhamValid(
        grayToBinary(4 * Bit(altBits, 3) + 2 * Bit(altBits, 1) + Bit(altBits, 0), 3) * 500
          + Gillham100(grayToBinary(4 * Bit(altBits, 11) + 2 * Bit(altBits, 9)
                                      + Bit(altBits, 7), 3))
          - 1300)

\* nicTable[typeCode] || 0
\* calculateNIC whose table ends at type code 18
calculateNIC_BaroOnly(typeCode, nicSupB, ss) ==
    CASE typeCode = 9 -> 11
      [] typeCode = 10 -> 10
      [] typeCode = 11 -> 9
      [] typeCode = 12 -> 7
      [] typeCode = 13 -> 6
      [] typeCode = 14 -> 5
      [] typeCode = 15 -> 4
      [] typeCode = 16 -> 3
      [] typeCode = 17 -> 2
      [] OTHER -> 0

calculateNIC(typeCode, nicSupB, ss) ==
    CASE typeCode = 9 -> 11
      [] typeCode = 10 -> 10
      [] typeCode = 11 -> 9
      [] typeCode = 12 -> 7
      [] typeCode = 13 -> 6
      [] typeCode = 14 -> 5
      [] typeCode = 15 -> 4
      [] typeCode = 16 -> 3
      [] typeCode = 17 -> 2
      [] typeCode = 18 -> 0
      [] typeCode = 20 -> 11
      [] typeCode = 21 -> 10
      [] typeCode = 22 -> 0
      [] OTHER -> 0

\* an altitude that takes the whole 12-bit field as the number of 25 ft steps
PositionAltitude_WholeField(altBits, altitudeType) == altBits * 25 - 1000

\* The altitude of a position message
PositionAltitude(altBits, altitudeType) ==
    IF altitudeType = "baro"
    THEN IF Bit(altBits, 4) = 1
         THEN ((altBits \div 32) * 16 + (altBits % 16)) * 25 - 1000
         ELSE decodeGillham(altBits)
    ELSE altBits * 25 - 1000

\* decodeAirbornePosition: the cache afterwards, the returned struct, what its
\* call of decodeGlobal returned (g), and the decode that resolved the
\* position: "global", "last" (local decode against the last resolved
\* position), "ref" (local decode against the receiver reference) or "none"
decodeAirbornePosition(cache, rLat, rLon, time, icao, hex, typeCode, altitudeType) ==
    LET Struct(fields, lat, lng) ==
            [type |-> "position", lat |-> lat, lng |-> lng,
             altitude |-> PositionAltitude(fields.altBits, altitudeType),
             altitudeType |-> altitudeType,
             nic |-> calculateNIC(typeCode, fields.nicSupB, fields.ss),
             cprOddEven |-> fields.cprOddEven,
             cprLat |-> fields.cprLat, cprLon |-> fields.cprLon]
        Return(fields, c, g, position, via) ==
            [cache |-> c,
             data  |-> IF position = Null
                       THEN Struct(fields, Angle(0, 1), Angle(0, 1))
                       ELSE Struct(fields, position.lat, position.lon),
             g     |-> [pos |-> g.pos, via |-> g.via],
             via   |-> via]
        AfterLocal(fields, g, l) ==
            Return(fields, l.cache, g, l.pos, IF l.pos # Null THEN "ref" ELSE "none")
        AfterGlobal(fields, g) ==
            IF g.pos # Null THEN Return(fields, g.cache, g, g.pos, g.via)
            ELSE AfterLocal(fields, g,
                            decodeLocal(g.cache, icao, fields.cprLat, fields.cprLon,
                                        fields.cprOddEven, rLat, rLon, time))
        With(fields) ==
            AfterGlobal(fields,
                        decodeGlobal(cache, icao, fields.cprLat, fields.cprLon,
                                     fields.cprOddEven, time))
    IN  With([ss         |-> MeBits(hex, 49, 2),
              nicSupB    |-> MeBits(hex, 48, 1),
              altBits    |-> MeBits(hex, 36, 12),
              cprOddEven |-> MeBits(hex, 34, 1),
              cprLat     |-> MeBits(hex, 17, 17),
              cprLon     |-> MeBits(hex, 0, 17)])

\* a test that rejects only when both raw magnitudes are 0
VelocityUnavailable_BothZero(ewVel, nsVel) == ewVel < 0 /\ nsVel < 0

\* if (ewVel < 0 || nsVel < 0) return null
VelocityUnavailable(ewVel, nsVel) == ewVel < 0 \/ nsVel < 0

\* a vertical rate without the adjustment of the raw value by 1
VerticalRate_Unadjusted(vrSign, vrRaw) ==
    IF vrSign = 1 THEN -(vrRaw * 64) ELSE vrRaw * 64

\* the vertical rate of decodeAirborneVelocity, in ft/min
VerticalRate(vrSign, vrRaw) ==
    IF vrSign = 1 THEN -((vrRaw - 1) * 64) ELSE (vrRaw - 1) * 64

\* decodeAirborneVelocity.  speed is factor * sqrt(root) knots; the heading of
\* a ground-speed message is atan2(vEW, vNS) in degrees, kept as the two
\* components, and that of an airspeed message the angle 360*raw/1024.
decodeAirborneVelocity(hex) ==
    LET Struct(subType, speed, heading, vrSign, vrRaw) ==
            [type |-> "velocity", speed |-> speed, heading |-> heading,
             verticalRate |-> VerticalRate(vrSign, vrRaw),
             subType |-> subType]
        Ground(subType, ewVel, nsVel, vEW, vNS) ==
            IF VelocityUnavailable(ewVel, nsVel) THEN Null
            ELSE Struct(subType,
                        [root |-> vEW * vEW + vNS * vNS,
                         factor |-> IF subType = 2 THEN 4 ELSE 1],
                        [atan2y |-> vEW, atan2x |-> vNS],
                        MeBits(hex, 10, 1), MeBits(hex, 1, 9))
        GroundRaw(subType, ewDir, ewVel, nsDir, nsVel) ==
            Ground(subType, ewVel, nsVel,
                   IF ewDir = 1 THEN -ewVel ELSE ewVel,
                   IF nsDir = 1 THEN -nsVel ELSE nsVel)
        Air(subType, headingAvail, headingRaw, airspeed) ==
            Struct(subType,
                   [root |-> airspeed * airspeed,
                    factor |-> IF subType = 4 THEN 4 ELSE 1],
                   IF headingAvail = 1 THEN Angle(headingRaw, 1024) ELSE Angle(0, 1),
                   MeBits(hex, 10, 1), MeBits(hex, 1, 9))
        With(subType) ==
            IF subType = 1 \/ subType = 2
            THEN GroundRaw(subType, MeBits(hex, 42, 1), MeBits(hex, 32, 10) - 1,
                           MeBits(hex, 31, 1), MeBits(hex, 21, 10) - 1)
            ELSE IF subType = 3 \/ subType = 4
            THEN Air(subType, MeBits(hex, 42, 1), MeBits(hex, 32, 10),
                     MeBits(hex, 21, 10))
            ELSE Null
    IN  With(MeBits(hex, 48, 3))


\* a character that is not a hex digit, in a hex string
NON_HEX == 16

\* BigInt('0x' + hexMsg) throws a SyntaxError
BigIntThrows(hex) == \E i \in 1..Len(hex) : hex[i] >= NON_HEX

\* a length gate that lets 27 digits through
InvalidLength_Allows27(hex) == Len(hex) # 28 /\ Len(hex) # 14 /\ Len(hex) # 27

\* if (hexMsg.length !== 28 && hexMsg.length !== 14) return null
InvalidLength(hex) == Len(hex) # 28 /\ Len(hex) # 14

\* a DF gate that lets only DF17 through
UnsupportedFrame_Only17(df) == df # 17

\* if (df !== 17 && df !== 18) return null
UnsupportedFrame(df) == df # 17 /\ df # 18

\* decode: the cache afterwards, the returned value, and (for a position
\* message) what decodeGlobal returned and the decode that resolved the position
decode(cache, rLat, rLon, time, hex) ==
    LET Unchanged(ret) ==
            [cache |-> cache, ret |-> ret, g |-> Undefined, via |-> "none"]
        Position(icao, r) ==
            [cache |-> r.cache, ret |-> [icao |-> icao, data |-> r.data],
             g |-> r.g, via |-> r.via]
        Dispatch(icao, typeCode) ==
            IF typeCode >= 1 /\ typeCode <= 4
            THEN Unchanged([icao |-> icao, data |-> decodeIdentification(hex, typeCode)])
            ELSE IF (typeCode >= 9 /\ typeCode <= 18) \/ (typeCode >= 20 /\ typeCode <= 22)
            THEN Position(icao,
                          decodeAirbornePosition(cache, rLat, rLon, time, icao, hex, typeCode,
                              IF typeCode <= 18 THEN "baro" ELSE "gnss"))
            ELSE IF typeCode = 19
            THEN Unchanged([icao |-> icao, data |-> decodeAirborneVelocity(hex)])
            ELSE Unchanged([icao |-> icao, data |-> Null])
        Accept(df) ==
            IF UnsupportedFrame(df) THEN Unchanged(Null)
            ELSE Dispatch(ToHex(HexBits(hex, 80, 24), 6), MeBits(hex, 51, 5))
    IN  IF InvalidLength(hex) THEN Unchanged(Null)
        ELSE IF BigIntThrows(hex) THEN Unchanged(Null)
        ELSE Accept(HexBits(hex, Len(hex) * 4 - 5, 5))

-----------------------------------------------------------------------------
(* Strings given to the decoders.  A string is a sequence of characters; the
   characters of the model are the hex digits in both cases, the letter "G"
   (no hex digit) and the blank (white space). *)

HexChars ==
    << "0", "1", "2", "3", "4", "5", "6", "7", "8", "9", "A", "B", "C", "D",
       "E", "F" >>

\* String.prototype.toUpperCase on one character
UpperChar(c) ==
    CASE c = "a" -> "A" [] c = "b" -> "B" [] c = "c" -> "C"
      [] c = "d" -> "D" [] c = "e" -> "E" [] c = "f" -> "F"
      [] OTHER -> c

\* the value of a character read as a hex digit by BigInt('0x' + s) or by
\* parseInt(s, 16), in either case; NON_HEX if it is no hex digit
DigitOf(c) ==
    LET Value(u) ==
            CASE u = "0" -> 0 [] u = "1" -> 1 [] u = "2" -> 2 [] u = "3" -> 3
              [] u = "4" -> 4 [] u = "5" -> 5 [] u = "6" -> 6 [] u = "7" -> 7
              [] u = "8" -> 8 [] u = "9" -> 9 [] u = "A" -> 10 [] u = "B" -> 11
              [] u = "C" -> 12 [] u = "D" -> 13 [] u = "E" -> 14 [] u = "F" -> 15
              [] OTHER -> NON_HEX
    IN  Value(UpperChar(c))

\* the digits BigInt('0x' + s) reads
ParseHex(s) == [i \in 1..Len(s) |-> DigitOf(s[i])]

\* the upper-case hex string with the given digit values
HexString(digits) == [i \in 1..Len(digits) |-> HexChars[digits[i] + 1]]

\* RealAdsbDecoder.decode(hexMsg) on a string: hexMsg.trim().toUpperCase(),
\* then the length gate, BigInt and the dispatch
RealAdsbDecoder_decode(cache, rLat, rLon, time, hexMsg) ==
    LET toUpperCase(s) == [i \in 1..Len(s) |-> UpperChar(s[i])]
    IN  decode(cache, rLat, rLon, time, ParseHex(toUpperCase(Trim(hexMsg))))

-----------------------------------------------------------------------------
(* AdsbDecoder and AdsbSimulator (utils/airlineDatabase.ts) *)

\* an uncaught SyntaxError leaving the call
SyntaxError == [threw |-> "SyntaxError"]

\* a decodePosition that reads the altitude where RealAdsbDecoder reads it
decodePosition_AltitudeAt36(hex) ==
    [type |-> "position",
     lat |-> Angle(2 * MeBits(hex, 16, 17) - 131071, 4 * 131071),
     lng |-> Angle(2 * MeBits(hex, 0, 17) - 131071, 2 * 131071),
     altitude |-> MeBits(hex, 36, 12) * 25 - 1000,
     nic |-> MeBits(hex, 47, 4)]

\* AdsbDecoder.decodePosition: lat = latEncoded / 131071 * 180 - 90 and
\* lng = lngEncoded / 131071 * 360 - 180, as angles
decodePosition(hex) ==
    [type |-> "position",
     lat |-> Angle(2 * MeBits(hex, 16, 17) - 131071, 4 * 131071),
     lng |-> Angle(2 * MeBits(hex, 0, 17) - 131071, 2 * 131071),
     altitude |-> MeBits(hex, 35, 12) * 25 - 1000,
     nic |-> MeBits(hex, 47, 4)]

\* AdsbDecoder.decodeVelocity
decodeVelocity(hex) ==
    [type |-> "velocity", speed |-> MeBits(hex, 30, 10),
     heading |-> Angle(MeBits(hex, 20, 7), 127)]

\* AdsbDecoder.decodeMessage(hexMsg): the returned value, or SyntaxError when
\* BigInt('0x' + hexMsg) throws.  BigInt skips white space at the end of its
\* argument; there is no try around it.
decodeMessage(hexMsg) ==
    LET Dispatch(hex, icao, typeCode) ==
            IF typeCode >= 9 /\ typeCode <= 18
            THEN [icao |-> icao, data |-> decodePosition(hex)]
            ELSE IF typeCode = 19
            THEN [icao |-> icao, data |-> decodeVelocity(hex)]
            ELSE [icao |-> icao, data |-> Null]
        Fields(hex) ==
            IF hex = << >> \/ BigIntThrows(hex) THEN SyntaxError
            ELSE IF HexBits(hex, 107, 5) # 17 THEN Null
            ELSE Dispatch(hex, ToHex(HexBits(hex, 80, 24), 6), MeBits(hex, 51, 5))
    IN  IF Len(hexMsg) # 28 THEN Null
        ELSE Fields(ParseHex(TrimRight(hexMsg)))

\* parseInt(s, 16) of a string that starts with a hex digit: the value of
\* the digits before the first character that is none
parseInt16(s) ==
    LET Stop == {i \in 1..Len(s) : DigitOf(s[i]) = NON_HEX} \cup {Len(s) + 1}
        Value(digits) == HexDigits(digits, 0, Len(digits))
    IN  Value(ParseHex(SubSeq(s, 1, (CHOOSE i \in Stop : \A j \in Stop : i <= j) - 1)))

\* AdsbSimulator.assembleMessage(df, ca, icao, payload), with the 56-bit
\* payload given as its bits 55..32, 31..16 and 15..0; the parity is 0xA5A5A5
assembleMessage(df, ca, icao, payloadHigh, payloadMid, payloadLow) ==
    HexString(ToHex(df * 8 + ca, 2) \o ToHex(icao, 6) \o ToHex(payloadHigh, 6)
                \o ToHex(payloadMid, 4) \o ToHex(payloadLow, 4)
                \o <<10, 5, 10, 5, 10, 5>>)

\* AdsbSimulator.generatePositionMessage(icao, lat, lng, alt, nic), lat and lng
\* in units of 1/10000 degree and alt in feet.  The payload is the bitwise OR
\* of typeCode << 51, nic << 47, alt << 35, lat << 16 and lng: the lowest bit
\* of the 17-bit latitude and the highest bit of the 17-bit longitude are both
\* bit 16 of the payload.
generatePositionMessage(icao, lat, lng, alt, nic) ==
    LET Pack(altEncoded, latEncoded, lngEncoded, nicEncoded) ==
            assembleMessage(17, 5, parseInt16(icao),
                (11 * 65536 + nicEncoded * 4096 + altEncoded) * 8
                    + (latEncoded \div 65536),
                (latEncoded % 65536)
                    + (IF latEncoded % 2 = 0 THEN lngEncoded \div 65536 ELSE 0),
                lngEncoded % 65536)
    IN  Pack(FloorDiv(alt + 1000, 25) % 4096,
             FloorMulDiv(lat + 900000, 131071, 1800000) % 131072,
             FloorMulDiv(lng + 1800000, 131071, 3600000) % 131072,
             nic % 16)

-----------------------------------------------------------------------------
(* Messages given to the decoder *)

\* A DF17/18 airborne position message with the given fields: DF(5) CA(3)
\* ICAO(24) | TC(5) SS(2) NICsb(1) ALT(12) T(1) F(1) LAT(17) LON(17) | PI(24)
PositionHex(f) ==
    ToHex(f.df * 8 + 5, 2) \o ToHex(f.icao, 6)
      \o ToHex(f.typeCode * 8 + f.ss * 2 + f.nicSupB, 2) \o ToHex(f.altBits, 3)
      \o ToHex(f.cprOddEven * 4 + (f.cprLat \div 32768), 1)
      \o ToHex((f.cprLat % 32768) * 2 + (f.cprLon \div 65536), 4)
      \o ToHex(f.cprLon % 65536, 4) \o ToHex(0, 6)

PosFields(df, icao, typeCode, ss, nicSupB, altBits, oddEven, cprLat, cprLon) ==
    [df |-> df, icao |-> icao, typeCode |-> typeCode, ss |-> ss,
     nicSupB |-> nicSupB, altBits |-> altBits, cprOddEven |-> oddEven,
     cprLat |-> cprLat, cprLon |-> cprLon]

ICAO_A == 7864320

ICAO_B == 4735190

\* The position messages of the model: for aircraft A an even frame, an odd
\* frame that pairs with it (14.8281 N / 14.8270 N, 114.06 E, both in the
\* NL = 58 band) and an odd frame just across the NL 58/57 boundary at
\* 14.828 N; for aircraft B an odd frame with CPR latitude and longitude 0
PositionInputs ==
    { PosFields(17, ICAO_A, 11, 0, 0, 3160, 0, 61781, 49327),
      PosFields(17, ICAO_A, 20, 1, 1, 440, 1, 56358, 8006),
      PosFields(18, ICAO_A, 18, 2, 0, 2048 + 8, 1, 56384, 97547),
      PosFields(17, ICAO_B, 22, 3, 0, 440, 1, 0, 0) }

Messages == {PositionHex(f) : f \in PositionInputs}

\* The receiver positions given to setReferencePosition, in 1/10000 degree:
\* 80 N, one close to the pole, 80 S in the western hemisphere, and 0 N 0 E
RefPositions ==
    { <<800000, 1140579>>, <<899000, 0>>, <<-800000, -1511772>>, <<0, 0>> }

-----------------------------------------------------------------------------
(* The decoder as a state machine *)

\* the clock of the model advances in steps of the pairing window
TICK_MS == PAIR_WINDOW_MS

NoResult == [hex |-> << >>, ret |-> Null, g |-> Undefined, via |-> "none"]

\* the fields each position message was built from
InputOf == [h \in Messages |-> CHOOSE f \in PositionInputs : PositionHex(f) = h]

\* the cache keys of the aircraft of the model
IcaoKey(icao) == ToHex(icao, 6)

Icaos == {IcaoKey(f.icao) : f \in PositionInputs}

SeenNone == [k \in Icaos |-> {}]

SoloNone == [k \in Icaos |-> EmptyCache]

\* new RealAdsbDecoder()
DecoderInit ==
    /\ cprCache = EmptyCache
    /\ refLat = Deg4(DEFAULT_REF_LAT)
    /\ refLon = Deg4(DEFAULT_REF_LON)
    /\ now = 0
    /\ result = NoResult
    /\ nDecoded = 0
    /\ seen = SeenNone
    /\ solo = SoloNone

\* no order experiment
OrderIdle == pairIn = Undefined /\ evenLast = Undefined /\ oddLast = Undefined

\* the second decoder, new
SecondInit == cacheB = EmptyCache /\ nowB = 0 /\ resultB = NoResult

\* new RealDataReplayEngine(), without its decoder
EngineInit ==
    /\ messages = << >>
    /\ currentIndex = 0
    /\ isPlaying = FALSE
    /\ isPaused = FALSE
    /\ playbackInterval = Null
    /\ messagesPerSecond = 100
    /\ onMessageCalls = << >>
    /\ onFinishedCalls = 0
    /\ playedAt = Null
-----------------------------------------------------------------------------
(* AdsbRecorder and ReplayEngine (recorder.ts)

   Wall-clock times and timestamps are in milliseconds.  A playback speed is
   kept in halves (1 for 0.5x, 2 for 1x, 4 for 2x), and a playback time, the
   product of a wall-clock duration and a speed, in half milliseconds. *)

\* what requestAnimationFrame returns
FrameRequest == [frame |-> "processEvents"]

\* a RecordedEvent of type 'init' (timestamp 0, data without hexMessage, which
\* the tests  event.data.hexMessage  treat like the empty string)
InitEvent == [timestamp |-> 0, type |-> "init", hexMessage |-> << >>]

\* new AdsbRecorder()
AdsbRecorder_new == [isRecording |-> FALSE, recordingStartTime |-> 0, events |-> << >>]

\* AdsbRecorder.startRecording(mapCenter, mapZoom, truthAircrafts) at time t,
\* truthAircrafts being non-empty
AdsbRecorder_startRecording(r, t) ==
    [isRecording |-> TRUE, recordingStartTime |-> t, events |-> <<InitEvent>>]

\* a recorder that puts each new event in front of the events it holds
AdsbRecorder_recordMessage_Unshift(r, hexMessage, t) ==
    IF ~r.isRecording THEN r
    ELSE [r EXCEPT !.events =
            <<[timestamp |-> t - r.recordingStartTime, type |-> "message",
               hexMessage |-> hexMessage]>> \o @]

\* AdsbRecorder.recordMessage(hexMessage) at time t
AdsbRecorder_recordMessage(r, hexMessage, t) ==
    IF ~r.isRecording THEN r
    ELSE [r EXCEPT !.events =
            Append(@, [timestamp |-> t - r.recordingStartTime, type |-> "message",
                       hexMessage |-> hexMessage])]

\* AdsbRecorder.stopRecording() at time t: the recorder afterwards and the
\* session returned (its duration and events), or null
AdsbRecorder_stopRecording(r, t) ==
    IF ~r.isRecording THEN [recorder |-> r, session |-> Null]
    ELSE [recorder |-> [r EXCEPT !.isRecording = FALSE],
          session |-> [duration |-> t - r.recordingStartTime, events |-> r.events]]

\* new ReplayEngine()
ReplayEngine_new ==
    [session |-> Null, state |-> "idle", currentEventIndex |-> 0,
     playbackStartTime |-> 0, pausedAt |-> 0, playbackSpeed |-> 2,
     animationFrameId |-> Null]

\* ReplayEngine.reset()
ReplayEngine_reset(e) ==
    [e EXCEPT !.currentEventIndex = 0, !.playbackStartTime = 0, !.pausedAt = 0]

\* ReplayEngine.loadSession(session), for a session with version and events
ReplayEngine_loadSession(e, session) ==
    ReplayEngine_reset([e EXCEPT !.session = session])

\* the playback time (Date.now() - playbackStartTime) * playbackSpeed at time
\* t, in half milliseconds
PlaybackTime(e, t) == (t - e.playbackStartTime) * e.playbackSpeed

\* ReplayEngine.play() at time t
ReplayEngine_play(e, t) ==
    LET Start(e1) ==
            [e1 EXCEPT !.playbackStartTime =
                          IF e1.state = "paused" THEN t - e1.pausedAt ELSE t,
                       !.state = "playing",
                       !.animationFrameId = FrameRequest]
    IN  IF e.session = Null THEN e
        ELSE IF e.state = "finished" THEN Start(ReplayEngine_reset(e))
        ELSE Start(e)

\* ReplayEngine.pause() at time t
ReplayEngine_pause(e, t) ==
    IF e.state # "playing" THEN e
    ELSE [e EXCEPT !.state = "paused",
                   !.pausedAt = t - e.playbackStartTime,
                   !.animationFrameId = Null]

\* ReplayEngine.stop()
ReplayEngine_stop(e) ==
    [ReplayEngine_reset(e) EXCEPT !.state = "idle", !.animationFrameId = Null]

\* the currentTime of getStatus() and of updateProgress() at time t, in half
\* milliseconds
ReplayEngine_currentTime(e, t) ==
    IF e.state = "playing" THEN PlaybackTime(e, t) ELSE 2 * e.pausedAt

\* events.findIndex(e => e.timestamp >= targetTime), events.length for -1
FindIndex(events, targetTime) ==
    LET At == {k \in 1..Len(events) : events[k].timestamp >= targetTime}
    IN  IF At = {} THEN Len(events)
        ELSE (CHOOSE k \in At : \A j \in At : k <= j) - 1

\* ReplayEngine.seekTo(timeMs) at time t
ReplayEngine_seekTo(e, timeMs, t) ==
    LET Seek(targetTime) ==
            [e EXCEPT !.currentEventIndex = FindIndex(e.session.events, targetTime),
                      !.playbackStartTime =
                          IF e.state = "playing" THEN t - targetTime ELSE @,
                      !.pausedAt =
                          IF e.state = "paused" THEN targetTime ELSE @]
    IN  IF e.session = Null THEN e
        ELSE Seek(Max(0, Min(timeMs, e.session.duration)))

\* ReplayEngine.setSpeed(speed) at time t; the quotient is exact in the model
ReplayEngine_setSpeed(e, speed, t) ==
    IF e.state = "playing"
    THEN [e EXCEPT !.playbackSpeed = speed,
                   !.playbackStartTime = t - (PlaybackTime(e, t) \div speed)]
    ELSE [e EXCEPT !.playbackSpeed = speed]

\* ReplayEngine.getEventsUpTo(targetTimeMs)
ReplayEngine_getEventsUpTo(e, targetTimeMs) ==
    IF e.session = Null THEN << >>
    ELSE SelectSeq(e.session.events,
                   LAMBDA ev : /\ ev.type = "message" /\ ev.hexMessage # << >>
                               /\ ev.timestamp <= targetTimeMs)

\* processEvents without the test of the state
ReplayEngine_processEvents_Unguarded(e, t) ==
    LET Late == {k \in (e.currentEventIndex + 1)..Len(e.session.events) :
                    2 * e.session.events[k].timestamp > PlaybackTime(e, t)}
        Index == IF Late = {} THEN Len(e.session.events)
                 ELSE (CHOOSE k \in Late : \A j \in Late : k <= j) - 1
        Due == SubSeq(e.session.events, e.currentEventIndex + 1, Index)
        Sent == SelectSeq(Due, LAMBDA ev : ev.type = "message" /\ ev.hexMessage # << >>)
    IN  IF e.session = Null
        THEN [engine |-> [e EXCEPT !.animationFrameId = Null],
              messages |-> << >>, ran |-> FALSE, finished |-> FALSE]
        ELSE IF Index >= Len(e.session.events)
        THEN [engine |-> [e EXCEPT !.currentEventIndex = Index, !.state = "finished",
                                   !.animationFrameId = Null],
              messages |-> Sent, ran |-> TRUE, finished |-> TRUE]
        ELSE [engine |-> [e EXCEPT !.currentEventIndex = Index,
                                   !.animationFrameId = FrameRequest],
              messages |-> Sent, ran |-> TRUE, finished |-> FALSE]

\* ReplayEngine.processEvents() at time t: the engine afterwards, the events
\* handed to the message callback, in order, whether the call got past its
\* guard, and whether the finish callback ran.  animationFrameId stands for the
\* pending frame request: it is null once the frame has run without asking
\* for another
ReplayEngine_processEvents(e, t) ==
    LET Late == {k \in (e.currentEventIndex + 1)..Len(e.session.events) :
                    2 * e.session.events[k].timestamp > PlaybackTime(e, t)}
        Index == IF Late = {} THEN Len(e.session.events)
                 ELSE (CHOOSE k \in Late : \A j \in Late : k <= j) - 1
        Due == SubSeq(e.session.events, e.currentEventIndex + 1, Index)
        Sent == SelectSeq(Due, LAMBDA ev : ev.type = "message" /\ ev.hexMessage # << >>)
    IN  IF e.session = Null \/ e.state # "playing"
        THEN [engine |-> [e EXCEPT !.animationFrameId = Null],
              messages |-> << >>, ran |-> FALSE, finished |-> FALSE]
        ELSE IF Index >= Len(e.session.events)
        THEN [engine |-> [e EXCEPT !.currentEventIndex = Index, !.state = "finished",
                                   !.animationFrameId = Null],
              messages |-> Sent, ran |-> TRUE, finished |-> TRUE]
        ELSE [engine |-> [e EXCEPT !.currentEventIndex = Index,
                                   !.animationFrameId = FrameRequest],
              messages |-> Sent, ran |-> TRUE, finished |-> FALSE]

-----------------------------------------------------------------------------
(* Map.vue: simulation, recording and replay modes *)

FRAME_MS == 64

\* what window.setInterval(processSignal, 1000) returns
SimulationTimer == [interval |-> "processSignal"]

\* what listen('adsb-batch', ...) resolves to
BatchListener == [listen |-> "adsb-batch"]

\* the position messages the simulation sources generate, for aircraft A and B
LiveMessages ==
    { HexString(PositionHex(PosFields(17, ICAO_A, 11, 0, 0, 3160, 0, 61781, 49327))),
      HexString(PositionHex(PosFields(17, ICAO_B, 11, 0, 0, 3160, 1, 56358, 8006))) }

\* the speed buttons 0.5x, 1x and 2x, in halves
Speeds == {1, 2, 4}

\* a recording file: a session whose message events carry the given
\* timestamps, after its init event
RecordingFile(stamps, duration) ==
    [duration |-> duration,
     events |-> <<InitEvent>> \o
        [k \in 1..Len(stamps) |->
            [timestamp |-> stamps[k], type |-> "message",
             hexMessage |->
                HexString(PositionHex(PosFields(17, ICAO_A + k, 11, 0, 0, 3160, k % 2,
                                                61781, 49327)))]]]

\* the recording files at hand
RecordingFiles == { RecordingFile(<<0, 64, 64>>, 128) }

\* the slider values of a session: the times of its frames, and the values
\* parseFloat can give below 0 and above the duration
SeekTargets(session) ==
    {-FRAME_MS} \cup {k * FRAME_MS : k \in 0..((session.duration \div FRAME_MS) + 1)}

\* AdsbDecoder.decodeMessage(hex) for the messages of the model
DecodedMessages ==
    [hex \in LiveMessages \cup {ev.hexMessage : ev \in UNION {
                {file.events[k] : k \in 2..Len(file.events)} : file \in RecordingFiles}}
        |-> decodeMessage(hex)]

\* handleReceivedMessage: decodeMessage(hex) followed by aircrafts.set(icao,
\* state), the ICAOs on display after a message
Display(shown, hex) ==
    LET With(ret) ==
            IF ret = Null \/ ret = SyntaxError THEN shown
            ELSE IF ret.data = Null THEN shown
            ELSE shown \cup {ret.icao}
    IN  With(DecodedMessages[hex])

RECURSIVE DisplayAll(_, _)
\* the messages of a sequence of events, each handled in turn
DisplayAll(shown, events) ==
    IF events = << >> THEN shown
    ELSE DisplayAll(Display(shown, Head(events).hexMessage), Tail(events))

\* trajectories after trajectories.clear()
NoTrajectories ==
    [icao \in {DecodedMessages[hex].icao : hex \in DOMAIN DecodedMessages} |-> << >>]

\* addTrajectoryPoint(icao, point): the timestamps of the points afterwards
addTrajectoryPoint(trajs, icao, timestamp) ==
    LET points == trajs[icao]
    IN  IF points = << >> \/ points[Len(points)] # timestamp
        THEN [trajs EXCEPT ![icao] = Append(points, timestamp)]
        ELSE trajs

\* handleReceivedMessage(hex, eventTimestamp) in replay mode: the trajectories
\* after a message
Trace(trajs, hex, eventTimestamp) ==
    LET With(ret) ==
            IF ret = Null \/ ret = SyntaxError THEN trajs
            ELSE IF ret.data = Null THEN trajs
            ELSE IF ret.data.type # "position" THEN trajs
            ELSE addTrajectoryPoint(trajs, ret.icao, eventTimestamp)
    IN  With(DecodedMessages[hex])

RECURSIVE TraceAll(_, _)
\* the messages of a sequence of events, each handled in turn
TraceAll(trajs, events) ==
    IF events = << >> THEN trajs
    ELSE TraceAll(Trace(trajs, Head(events).hexMessage, Head(events).timestamp),
                  Tail(events))

\* onMounted: the Rust backend's listener where Tauri is available, the
\* front-end timer otherwise; no recording, no session
SessionInit ==
    /\ recorder = AdsbRecorder_new
    /\ replayEngine = ReplayEngine_new
    /\ wallClock = 0
    /\ mode = "simulation"
    /\ \/ simulationInterval = SimulationTimer /\ tauriUnlisten = Null
       \/ simulationInterval = Null /\ tauriUnlisten = BatchListener
    /\ aircrafts = {}
    /\ playbackCurrentTime = 0
    /\ storage = Null
    /\ passed = << >>
    /\ delivered = << >>
    /\ finishCount = 0
    /\ nCommands = 0
    /\ stoppedAt = Null
    /\ appliedBy = "none"
    /\ trajectories = NoTrajectories

\* the session model at rest, for the specifications that do not use it
SessionIdle ==
    /\ recorder = AdsbRecorder_new
    /\ replayEngine = ReplayEngine_new
    /\ wallClock = 0
    /\ mode = "simulation"
    /\ simulationInterval = Null /\ tauriUnlisten = Null
    /\ aircrafts = {}
    /\ playbackCurrentTime = 0
    /\ storage = Null
    /\ passed = << >>
    /\ delivered = << >>
    /\ finishCount = 0
    /\ nCommands = 0
    /\ stoppedAt = Null
    /\ appliedBy = "none"
    /\ trajectories = NoTrajectories


\* no codec call
CallIdle == callIn = Undefined /\ callOut = Undefined

Init == DecoderInit /\ OrderIdle /\ SecondInit /\ EngineInit /\ CallIdle /\ SessionIdle

\* what a call of decode leaves in result
ResultOf(hex, r) == [hex |-> hex, ret |-> r.ret, g |-> r.g, via |-> r.via]

\* the effect of RealAdsbDecoder.decode(hexMsg) on the decoder
DecodeCall(hex) ==
    /\ LET Set(r) == cprCache' = r.cache /\ result' = ResultOf(hex, r)
       IN  Set(decode(cprCache, refLat, refLon, now, hex))
    /\ nDecoded' = nDecoded + 1
    /\ seen' = [seen EXCEPT ![IcaoKey(InputOf[hex].icao)] =
                                @ \cup {InputOf[hex].cprOddEven}]
    /\ UNCHANGED <<refLat, refLon, now>>

\* RealAdsbDecoder.decode(hexMsg)
Decode(hex) ==
    /\ nDecoded < MaxDecodes
    /\ DecodeCall(hex)
    /\ UNCHANGED <<solo, orderVars, secondVars, engineVars, callVars, sessionVars, observedVars>>

\* RealAdsbDecoder.setReferencePosition(lat, lon)
SetReferencePosition(lat, lon) ==
    /\ refLat' = Deg4(lat)
    /\ refLon' = Deg4(lon)
    /\ <<refLat', refLon'>> # <<refLat, refLon>>
    /\ UNCHANGED <<cprCache, now, result, nDecoded, seen, solo>>
    /\ UNCHANGED <<orderVars, secondVars, engineVars, callVars, sessionVars, observedVars>>

\* RealAdsbDecoder.clearCache()
ClearCache ==
    /\ cprCache' = CPRDecoder_clearCache(cprCache)
    /\ seen' = SeenNone
    /\ solo' = SoloNone
    /\ UNCHANGED <<refLat, refLon, now, result, nDecoded>>
    /\ UNCHANGED <<orderVars, secondVars, engineVars, callVars, sessionVars, observedVars>>

\* Time passes between two calls
Tick ==
    /\ now < MaxTicks * TICK_MS
    /\ now' = now + TICK_MS
    /\ UNCHANGED <<cprCache, refLat, refLon, result, nDecoded, seen, solo>>
    /\ UNCHANGED <<orderVars, secondVars, engineVars, callVars, sessionVars, observedVars>>

\* decode(hexMsg), with the same message given at the same time to the private
\* decoder of the message's aircraft
InterleavedDecode(hex) ==
    /\ nDecoded < MaxInterleaved
    /\ DecodeCall(hex)
    /\ solo' = [solo EXCEPT ![IcaoKey(InputOf[hex].icao)] =
                                decode(@, refLat, refLon, now, hex).cache]
    /\ UNCHANGED <<orderVars, secondVars, engineVars, callVars, sessionVars, observedVars>>

Next ==
    \/ \E hex \in Messages : Decode(hex)
    \/ \E p \in RefPositions : SetReferencePosition(p[1], p[2])
    \/ ClearCache
    \/ Tick

Spec == Init /\ [][Next]_vars

\* One decoder given the interleaved messages of the aircraft, next to one
\* private decoder per aircraft
NextSolo ==
    \/ \E hex \in Messages : InterleavedDecode(hex)
    \/ Tick

SpecSolo == Init /\ [][NextSolo]_vars

-----------------------------------------------------------------------------
(* decodeGlobal on one even and one odd frame, in both orders *)

\* CPR (lat, lon) of even frames: of 14.828 N 114.06 E, 33.9461 S 151.1772 E,
\* 52.2572 N 3.9194 E and 0 N 0 E
EvenFrames == { <<61781, 49327>>, <<44868, 75615>>, <<93000, 51372>>, <<0, 0>> }

\* CPR (lat, lon) of odd frames: of positions 0.001 degree north and 0.002
\* degree east of those of EvenFrames, and of 0 N 0 E
OddFrames == { <<56358, 8006>>, <<57249, 20608>>, <<73995, 49971>>, <<0, 0>> }

\* an even frame, an odd frame, and the time between the two calls
OrderInputs ==
    { [even |-> [lat |-> e[1], lon |-> e[2]], odd |-> [lat |-> o[1], lon |-> o[2]],
       gap |-> g] : e \in EvenFrames, o \in OddFrames, g \in {0, PAIR_WINDOW_MS} }

\* decodeGlobal called on a new CPRDecoder for the frame first of parity
\* firstParity and then, gap ms later, for the frame last of the other parity
TwoFrames(first, firstParity, last, gap) ==
    LET Result(r) == [pos |-> r.pos, via |-> r.via]
        Second(r) == Result(decodeGlobal(r.cache, IcaoKey(ICAO_A), last.lat, last.lon,
                                         1 - firstParity, gap))
    IN  Second(decodeGlobal(EmptyCache, IcaoKey(ICAO_A), first.lat, first.lon,
                            firstParity, 0))

InitOrder ==
    /\ DecoderInit /\ SecondInit /\ EngineInit /\ CallIdle /\ SessionIdle
    /\ pairIn \in OrderInputs
    /\ evenLast = Undefined
    /\ oddLast = Undefined

\* odd frame first, even frame last
SupplyEvenLast ==
    /\ evenLast = Undefined
    /\ evenLast' = TwoFrames(pairIn.odd, 1, pairIn.even, pairIn.gap)
    /\ UNCHANGED <<decoderVars, pairIn, oddLast, secondVars, engineVars, callVars, sessionVars, observedVars>>

\* even frame first, odd frame last
SupplyOddLast ==
    /\ oddLast = Undefined
    /\ oddLast' = TwoFrames(pairIn.even, 0, pairIn.odd, pairIn.gap)
    /\ UNCHANGED <<decoderVars, pairIn, evenLast, secondVars, engineVars, callVars, sessionVars, observedVars>>

NextOrder == SupplyEvenLast \/ SupplyOddLast

SpecOrder == InitOrder /\ [][NextOrder]_vars

-----------------------------------------------------------------------------
(* Two decoders given the same messages, each at the time of its own clock *)

\* decode(hexMsg) called on both decoders
FeedBoth(hex) ==
    /\ nDecoded < MaxDecodes
    /\ DecodeCall(hex)
    /\ LET Set(r) == cacheB' = r.cache /\ resultB' = ResultOf(hex, r)
       IN  Set(decode(cacheB, refLat, refLon, nowB, hex))
    /\ UNCHANGED <<nowB, solo, orderVars, engineVars, callVars, sessionVars, observedVars>>

\* Time passes for the second decoder
TickSecond ==
    /\ nowB < MaxTicks * TICK_MS
    /\ nowB' = nowB + TICK_MS
    /\ UNCHANGED <<decoderVars, orderVars, cacheB, resultB, engineVars, callVars, sessionVars, observedVars>>

NextPacing ==
    \/ \E hex \in Messages : FeedBoth(hex)
    \/ Tick
    \/ TickSecond

SpecPacing == Init /\ [][NextPacing]_vars

-----------------------------------------------------------------------------
(* RealDataReplayEngine *)

\* The recordings given to loadMessages: an even frame and an odd frame, and
\* the same followed by the even frame again
Recordings ==
    LET Even == {h \in Messages : InputOf[h].cprOddEven = 0}
        Odd  == {h \in Messages : InputOf[h].cprOddEven = 1}
    IN  {<<e, o>> : e \in Even, o \in Odd} \cup {<<e, o, e>> : e \in Even, o \in Odd}

\* the arguments given to setSpeed, seek and seekToPercent
SpeedInputs == {0, 100}

SeekInputs == {-1, 1, 2, 3}

PercentInputs == {0, 50, 100}

RECURSIVE DecodeRange(_, _, _, _, _, _, _)
\* the cache after decode(msgs[i].hexMessage) for the indices from <= i < to
\* (indices counted from 0), all at the given time.  (The test of r makes
\* TLC finish one call of decode before it enters the next.)
DecodeRange(cache, rLat, rLon, time, msgs, from, to) ==
    LET Then(r) == IF r = r
                   THEN DecodeRange(r.cache, rLat, rLon, time, msgs, from + 1, to)
                   ELSE cache
    IN  IF from >= to THEN cache
        ELSE Then(decode(cache, rLat, rLon, time, msgs[from + 1]))

\* messagesPerBatch of startInterval: Math.max(1, Math.ceil(mps / (1000 / 16)))
MessagesPerBatch(mps) == Max(1, (mps * 16 + 999) \div 1000)

\* startInterval(): the running timer, known by the batch size it was started with
StartInterval(mps) == [messagesPerBatch |-> MessagesPerBatch(mps)]

\* loadMessages(messages)
LoadMessages(msgs) ==
    /\ messages' = msgs
    /\ currentIndex' = 0
    /\ cprCache' = CPRDecoder_clearCache(cprCache)
    /\ UNCHANGED <<refLat, refLon, now, result, nDecoded, seen, solo>>
    /\ UNCHANGED <<isPlaying, isPaused, playbackInterval, messagesPerSecond>>
    /\ UNCHANGED <<orderVars, secondVars, callVars, sessionVars, observedVars>>

\* setSpeed(messagesPerSecond)
SetSpeed(mps) ==
    /\ messagesPerSecond' = Max(1, Min(10000, mps))
    /\ playbackInterval' = IF isPlaying /\ ~isPaused
                           THEN StartInterval(messagesPerSecond')
                           ELSE playbackInterval
    /\ UNCHANGED <<decoderVars, messages, currentIndex, isPlaying, isPaused>>
    /\ UNCHANGED <<orderVars, secondVars, callVars, sessionVars, observedVars>>

\* the assignments of play()
PlayCall ==
    IF Len(messages) = 0
    THEN UNCHANGED <<isPlaying, isPaused, playbackInterval>>
    ELSE /\ isPlaying' = TRUE
         /\ isPaused' = FALSE
         /\ playbackInterval' = StartInterval(messagesPerSecond)

\* play()
Play ==
    /\ PlayCall
    /\ UNCHANGED <<decoderVars, messages, currentIndex, messagesPerSecond>>
    /\ UNCHANGED <<orderVars, secondVars, callVars, sessionVars, observedVars>>

\* pause()
Pause ==
    /\ isPaused' = TRUE
    /\ playbackInterval' = Null
    /\ UNCHANGED <<decoderVars, messages, currentIndex, isPlaying, messagesPerSecond>>
    /\ UNCHANGED <<orderVars, secondVars, callVars, sessionVars, observedVars>>

\* resume()
Resume ==
    /\ IF ~isPlaying
       THEN UNCHANGED <<isPaused, playbackInterval>>
       ELSE /\ isPaused' = FALSE
            /\ playbackInterval' = StartInterval(messagesPerSecond)
    /\ UNCHANGED <<decoderVars, messages, currentIndex, isPlaying, messagesPerSecond>>
    /\ UNCHANGED <<orderVars, secondVars, callVars, sessionVars, observedVars>>

\* the assignments of stop()
StopCall ==
    /\ isPlaying' = FALSE
    /\ isPaused' = FALSE
    /\ currentIndex' = 0
    /\ playbackInterval' = Null
    /\ cprCache' = CPRDecoder_clearCache(cprCache)

\* stop()
Stop ==
    /\ StopCall
    /\ UNCHANGED <<refLat, refLon, now, result, nDecoded, seen, solo>>
    /\ UNCHANGED <<messages, messagesPerSecond, orderVars, secondVars, callVars, sessionVars, observedVars>>

\* the assignments of seek(index)
SeekCall(index) ==
    LET Run(start, cache, targetIndex) ==
            /\ cprCache' = DecodeRange(cache, refLat, refLon, now, messages,
                                       start, targetIndex)
            /\ currentIndex' = Max(start, targetIndex)
        To(targetIndex) ==
            IF targetIndex < currentIndex
            THEN Run(0, CPRDecoder_clearCache(cprCache), targetIndex)
            ELSE Run(currentIndex, cprCache, targetIndex)
    IN  To(Max(0, Min(index, Len(messages) - 1)))

\* seek(index)
Seek(index) ==
    /\ SeekCall(index)
    /\ UNCHANGED <<refLat, refLon, now, result, nDecoded, seen, solo>>
    /\ UNCHANGED <<messages, isPlaying, isPaused, playbackInterval, messagesPerSecond>>
    /\ UNCHANGED <<orderVars, secondVars, callVars, sessionVars, observedVars>>

\* seekToPercent(percent)
SeekToPercent(percent) ==
    /\ SeekCall((percent * Len(messages)) \div 100)
    /\ UNCHANGED <<refLat, refLon, now, result, nDecoded, seen, solo>>
    /\ UNCHANGED <<messages, isPlaying, isPaused, playbackInterval, messagesPerSecond>>
    /\ UNCHANGED <<orderVars, secondVars, callVars, sessionVars, observedVars>>

ProcessMessageBatchCall_StopsEarly(count) ==
    IF currentIndex + 1 >= Len(messages)
    THEN StopCall
    ELSE /\ cprCache' = DecodeRange(cprCache, refLat, refLon, now, messages,
                                    currentIndex,
                                    Min(currentIndex + count, Len(messages)))
         /\ currentIndex' = Min(currentIndex + count, Len(messages))
         /\ UNCHANGED <<isPlaying, isPaused, playbackInterval>>

\* the assignments of processMessageBatch(count)
ProcessMessageBatchCall(count) ==
    IF currentIndex >= Len(messages)
    THEN StopCall
    ELSE /\ cprCache' = DecodeRange(cprCache, refLat, refLon, now, messages,
                                    currentIndex,
                                    Min(currentIndex + count, Len(messages)))
         /\ currentIndex' = Min(currentIndex + count, Len(messages))
         /\ UNCHANGED <<isPlaying, isPaused, playbackInterval>>

\* The timer of startInterval fires: processMessageBatch(messagesPerBatch)
TimerFires ==
    /\ playbackInterval # Null
    /\ ProcessMessageBatchCall(playbackInterval.messagesPerBatch)
    /\ UNCHANGED <<refLat, refLon, now, result, nDecoded, seen, solo>>
    /\ UNCHANGED <<messages, messagesPerSecond, orderVars, secondVars, callVars, sessionVars, observedVars>>

\* Time passes while no timer is running.  The clock counts in steps of
\* TICK_MS; the 16 ms between two batches of a running timer are below that.
Elapse ==
    /\ playbackInterval = Null
    /\ Tick

NextReplay ==
    \/ \E msgs \in Recordings : LoadMessages(msgs)
    \/ \E mps \in SpeedInputs : SetSpeed(mps)
    \/ Play
    \/ Pause
    \/ Resume
    \/ Stop
    \/ \E index \in SeekInputs : Seek(index)
    \/ \E percent \in PercentInputs : SeekToPercent(percent)
    \/ TimerFires
    \/ Elapse

SpecReplay == Init /\ [][NextReplay]_vars

\* play(), observed: the index at which it finds the engine is kept
PlayObserved ==
    /\ PlayCall
    /\ playedAt' = IF Len(messages) = 0 THEN playedAt ELSE [index |-> currentIndex]
    /\ UNCHANGED <<decoderVars, messages, currentIndex, messagesPerSecond>>
    /\ UNCHANGED <<onMessageCalls, onFinishedCalls>>
    /\ UNCHANGED <<orderVars, secondVars, callVars, sessionVars>>

\* the timer fires, observed: processMessageBatch hands the messages of the
\* batch to onMessage, or calls onFinished after stop()
TimerFiresObserved ==
    /\ playbackInterval # Null
    /\ ProcessMessageBatchCall(playbackInterval.messagesPerBatch)
    /\ onMessageCalls' = onMessageCalls \o SubSeq(messages, currentIndex + 1, currentIndex')
    /\ onFinishedCalls' = onFinishedCalls + (IF currentIndex >= Len(messages) THEN 1 ELSE 0)
    /\ UNCHANGED <<refLat, refLon, now, result, nDecoded, seen, solo, playedAt>>
    /\ UNCHANGED <<messages, messagesPerSecond, orderVars, secondVars, callVars, sessionVars>>

\* one replay to its end: the engine is prepared (loadMessages, setSpeed,
\* seek), play() is called once, and nothing is called after it
NextTermination ==
    \/ playedAt = Null /\ \E msgs \in Recordings : LoadMessages(msgs)
    \/ playedAt = Null /\ \E mps \in SpeedInputs : SetSpeed(mps)
    \/ playedAt = Null /\ \E index \in SeekInputs : Seek(index)
    \/ playedAt = Null /\ PlayObserved
    \/ TimerFiresObserved

SpecTermination == Init /\ [][NextTermination]_vars

\* the callback of setInterval can run exactly while the timer exists: it then
\* stops the engine or advances currentIndex, so it never stutters
TimerPending == playbackInterval # Null

\* setInterval keeps firing while the timer exists: weak fairness of
\* TimerFiresObserved, written out with TimerPending for its ENABLED
SpecTerminationFair ==
    SpecTermination /\ ([]<>(~TimerPending) \/ []<><<TimerFiresObserved>>_vars)

-----------------------------------------------------------------------------
(* Properties of the decoder *)

\* the last call of decode returned a position struct
IsPosition(res) ==
    /\ res.ret # Null
    /\ res.ret.data # Null
    /\ res.ret.data.type = "position"

\* a step that is a call of decode on a position message
DecodeStep == nDecoded' = nDecoded + 1 /\ IsPosition(result')

\* the frame of the opposite parity held for the message's aircraft before the call
OppositeBefore(f) ==
    LET e == CacheGet(cprCache, IcaoKey(f.icao))
    IN  IF f.cprOddEven = 0 THEN e.odd ELSE e.even

\* what the fallback of decodeGlobal has to return: the local decode against
\* the aircraft's last resolved position if there is one, else null
ExpectedFallback(f) ==
    LET e == CacheGet(cprCache, IcaoKey(f.icao))
    IN  IF e.last = NoPos THEN Null
        ELSE LocalPosition(f.cprLat, f.cprLon, f.cprOddEven, e.last.lat, e.last.lon)

\* the candidate latitudes of the pair made of the message and the opposite frame
PairLatE(f, opp) ==
    LET ev == IF f.cprOddEven = 0 THEN f.cprLat ELSE opp.lat
        od == IF f.cprOddEven = 0 THEN opp.lat ELSE f.cprLat
    IN  GlobalLatNum(GlobalLatIndex(ev, od), 60, ev)

PairLatO(f, opp) ==
    LET ev == IF f.cprOddEven = 0 THEN f.cprLat ELSE opp.lat
        od == IF f.cprOddEven = 0 THEN opp.lat ELSE f.cprLat
    IN  GlobalLatNum(GlobalLatIndex(ev, od), 59, od)

PairNLAgree(f, opp) == NL(PairLatE(f, opp), 60) = NL(PairLatO(f, opp), 59)

\* C1: in decodeGlobal, once the new frame is stored, a pair whose receipt
\* times differ by more than 10 000 ms is never decoded globally: the result
\* is the local decode against the last resolved position if there is one,
\* else null; a pair at most 10 000 ms apart is decoded globally unless its NL
\* values disagree.
C1_PairWindow ==
    [][DecodeStep =>
        LET f   == InputOf[result'.hex]
            opp == OppositeBefore(f)
        IN  opp # NoFrame =>
              /\ now - opp.time > 10000 =>
                    /\ result'.g.via # "global"
                    /\ result'.g.pos = ExpectedFallback(f)
              /\ (now - opp.time <= 10000 /\ PairNLAgree(f, opp)) =>
                    result'.g.via = "global"]_vars

\* C1 witness: a frame was decoded while the opposite frame in the cache was
\* more than 10 000 ms old, and the local decode against the last position
\* answered
C1_Witness ==
    /\ IsPosition(result)
    /\ result.g.via = "last"
    /\ result.g.pos # Null
    /\ LET k == result.ret.icao
       IN  /\ k \in DOMAIN cprCache
           /\ cprCache[k].even # NoFrame
           /\ cprCache[k].odd # NoFrame
           /\ Abs(cprCache[k].even.time - cprCache[k].odd.time) > 10000

\* C2: decodeGlobal never returns a globally computed position from a pair
\* whose candidate latitudes latE and latO have different NL values (it
\* returns the fallback instead); when the NL values agree the returned
\* latitude is latE for a new even frame and latO for a new odd frame.
C2_NLConsistency ==
    [][DecodeStep =>
        LET f   == InputOf[result'.hex]
            opp == OppositeBefore(f)
        IN  (opp # NoFrame /\ now - opp.time <= 10000) =>
              IF PairNLAgree(f, opp)
              THEN /\ result'.g.via = "global"
                   /\ result'.g.pos.lat =
                        IF f.cprOddEven = 0
                        THEN Angle(PairLatE(f, opp), 60 * CPR_SCALE)
                        ELSE Angle(PairLatO(f, opp), 59 * CPR_SCALE)
              ELSE /\ result'.g.via # "global"
                   /\ result'.g.pos = ExpectedFallback(f)]_vars

\* C2 witness: a pair inside the time window whose NL values disagree was
\* answered by the local decode against the last position
C2_Witness ==
    /\ IsPosition(result)
    /\ result.g.via = "last"
    /\ LET k == result.ret.icao
       IN  /\ k \in DOMAIN cprCache
           /\ cprCache[k].even # NoFrame
           /\ cprCache[k].odd # NoFrame
           /\ Abs(cprCache[k].even.time - cprCache[k].odd.time) <= 10000
           /\ LET j == GlobalLatIndex(cprCache[k].even.lat, cprCache[k].odd.lat)
              IN  NL(GlobalLatNum(j, 60, cprCache[k].even.lat), 60)
                    # NL(GlobalLatNum(j, 59, cprCache[k].odd.lat), 59)

\* what decodeGlobal has to return for the message: the global decode of the
\* pair it makes with the stored opposite frame if that frame is at most
\* 10 000 ms old and the NL values agree, else the fallback
ExpectedGlobal(f) ==
    LET Pair(own, opp) ==
            IF opp # NoFrame /\ now - opp.time <= 10000 /\ PairNLAgree(f, opp)
            THEN IF f.cprOddEven = 0 THEN GlobalPosition(own, opp, 0)
                 ELSE GlobalPosition(opp, own, 1)
            ELSE ExpectedFallback(f)
    IN  Pair([lat |-> f.cprLat, lon |-> f.cprLon], OppositeBefore(f))

\* what decodeAirbornePosition has to resolve: the result of decodeGlobal, or
\* without one the local decode against the receiver reference
ExpectedPosition(f) ==
    LET Or(g) == IF g # Null THEN g
                 ELSE LocalPosition(f.cprLat, f.cprLon, f.cprOddEven, refLat, refLon)
    IN  Or(ExpectedGlobal(f))

\* C4 (as amended): when a frame arrives and the cache holds no frame of the
\* opposite parity for its ICAO, decode returns a resolved position by local
\* decode provided the receiver reference latitude lies within 80 degrees of
\* the equator; and when the cache holds neither an opposite frame nor a last
\* resolved position for the ICAO, decodeGlobal returns null.
C4_LocalFallback ==
    [][DecodeStep =>
        LET f == InputOf[result'.hex]
            e == CacheGet(cprCache, IcaoKey(f.icao))
        IN  /\ (OppositeBefore(f) = NoFrame /\ 9 * Abs(refLat.num) <= 2 * refLat.den) =>
                  /\ result'.via \in {"last", "ref"}
                  /\ CPRDecoder_getLastPosition(cprCache', IcaoKey(f.icao)) # Null
            /\ (OppositeBefore(f) = NoFrame /\ e.last = NoPos) =>
                  /\ result'.g.pos = Null
                  /\ result'.g.via = "none"]_vars

\* C4 witness: the first frame of an aircraft was resolved by local decode
\* against a receiver reference at 80 S
C4_Witness ==
    /\ IsPosition(result)
    /\ result.g.via = "none"
    /\ result.via = "ref"
    /\ refLat = Deg4(-800000)
    /\ LET k == result.ret.icao
       IN  /\ k \in DOMAIN cprCache
           /\ (cprCache[k].even = NoFrame) # (cprCache[k].odd = NoFrame)
           /\ cprCache[k].last.lat = result.ret.data.lat

\* C4 as the specification states it: with only one parity frame and any
\* reference position, the local decode returns a position; with
\* neither a last position nor an opposite frame decodeGlobal returns null.
C4_AnyReference ==
    [][DecodeStep =>
        LET f == InputOf[result'.hex]
            e == CacheGet(cprCache, IcaoKey(f.icao))
        IN  /\ OppositeBefore(f) = NoFrame =>
                  /\ result'.via \in {"last", "ref"}
                  /\ CPRDecoder_getLastPosition(cprCache', IcaoKey(f.icao)) # Null
            /\ (OppositeBefore(f) = NoFrame /\ e.last = NoPos) =>
                  /\ result'.g.pos = Null
                  /\ result'.g.via = "none"]_vars

\* C5 (as amended): for every DF17/18 frame with type code 9-18 or 20-22,
\* decode returns a position struct whose altitudeType, nic, cprOddEven, cprLat
\* and cprLon are those of the frame; its (lat, lng) is (0, 0) whenever neither
\* the global decode, nor the local decode against the last position, nor the
\* local decode against the receiver reference produced a position, and is
\* otherwise the position the first of them produced (which may itself be
\* (0, 0)).
C5_PositionStruct ==
    [][nDecoded' = nDecoded + 1 =>
        LET f == InputOf[result'.hex]
            Resolved(d, pos) ==
                IF pos = Null
                THEN result'.via = "none" /\ d.lat = Angle(0, 1) /\ d.lng = Angle(0, 1)
                ELSE result'.via # "none" /\ d.lat = pos.lat /\ d.lng = pos.lon
            Fields(d) ==
                /\ d.altitudeType = (IF f.typeCode <= 18 THEN "baro" ELSE "gnss")
                /\ d.nic = calculateNIC(f.typeCode, f.nicSupB, f.ss)
                /\ d.cprOddEven = f.cprOddEven
                /\ d.cprLat = f.cprLat
                /\ d.cprLon = f.cprLon
        IN  /\ IsPosition(result')
            /\ Fields(result'.ret.data)
            /\ Resolved(result'.ret.data, ExpectedPosition(f))]_vars

\* C5 witness: a frame that no decode could resolve was returned with the
\* (0, 0) sentinel and the frame's CPR fields
C5_Witness ==
    /\ IsPosition(result)
    /\ result.via = "none"
    /\ result.ret.data.lat = Angle(0, 1)
    /\ result.ret.data.lng = Angle(0, 1)
    /\ result.ret.data.cprLat = InputOf[result.hex].cprLat
    /\ result.ret.data.cprLat # 0

\* C5 as the specification states it: the returned (lat, lng) is (0, 0)
\* exactly when no decode produced a position.
C5_SentinelExactly ==
    IsPosition(result) =>
        ((result.ret.data.lat = Angle(0, 1) /\ result.ret.data.lng = Angle(0, 1))
            <=> result.via = "none")

\* C6: whenever a decode for ICAO X returns a resolved position,
\* getLastPosition(X) afterwards is exactly the returned (lat, lng); whenever
\* it returns unresolved, getLastPosition(X) is what it was before the call.
C6_LastPosition ==
    [][DecodeStep =>
        LET k == result'.ret.icao
            d == result'.ret.data
        IN  IF result'.via # "none"
            THEN CPRDecoder_getLastPosition(cprCache', k) = [lat |-> d.lat, lon |-> d.lng]
            ELSE CPRDecoder_getLastPosition(cprCache', k)
                    = CPRDecoder_getLastPosition(cprCache, k)]_vars

\* C6 witness: a global decode replaced the last position, and
\* getLastPosition returns the new one
C6_Witness ==
    /\ IsPosition(result)
    /\ result.via = "global"
    /\ CPRDecoder_getLastPosition(cprCache, result.ret.icao)
          = [lat |-> result.ret.data.lat, lon |-> result.ret.data.lng]

\* C8: clearCache leaves getLastPosition null for every ICAO; the first frame
\* of an ICAO after a clear (or after construction) is decoded exactly as by a
\* decoder with an empty cache; and no step other than clearCache removes a
\* cache entry.
C8_ClearCache ==
    [][/\ ClearCache =>
            \A k \in Icaos : CPRDecoder_getLastPosition(cprCache', k) = Null
       /\ (DecodeStep /\ seen[result'.ret.icao] = {}) =>
            LET First(r) ==
                    /\ result'.ret = r.ret
                    /\ result'.g = r.g
                    /\ result'.g.via = "none"
                    /\ result'.via \in {"ref", "none"}
                    /\ cprCache'[result'.ret.icao] = r.cache[result'.ret.icao]
            IN  First(decode(EmptyCache, refLat, refLon, now, result'.hex))
       /\ ClearCache \/ DOMAIN cprCache \subseteq DOMAIN cprCache']_vars

\* C8 witness: after two decodes with a clearCache between them, the second
\* frame was decoded as a first sighting
C8_Witness ==
    /\ nDecoded = 2
    /\ IsPosition(result)
    /\ result.g.via = "none"
    /\ result.via = "ref"
    /\ \A k \in Icaos :
          seen[k] = IF k = result.ret.icao THEN {result.ret.data.cprOddEven} ELSE {}
    /\ DOMAIN cprCache = {result.ret.icao}

\* C7: decoding a frame of one ICAO leaves the cache entry of every other
\* ICAO as it was, and returns what the private decoder of that ICAO, which
\* was given only that ICAO's messages at the same times, returns for it; the
\* ICAO's cache entry is afterwards that of its private decoder.
C7_IcaoIndependence ==
    [][DecodeStep =>
        LET k == result'.ret.icao
            Same(r) ==
                /\ result'.ret = r.ret
                /\ cprCache'[k] = r.cache[k]
                /\ solo'[k] = r.cache
                /\ DOMAIN r.cache = {k}
        IN  /\ \A b \in Icaos \ {k} :
                  /\ b \in DOMAIN cprCache' <=> b \in DOMAIN cprCache
                  /\ b \in DOMAIN cprCache => cprCache'[b] = cprCache[b]
            /\ Same(decode(solo[k], refLat, refLon, now, result'.hex))]_vars

\* C7 witness: an even frame of A at time 0, then the frame of B and an odd
\* frame of A at time 10 000, the last decoded globally as by A's private
\* decoder
C7_Witness ==
    /\ nDecoded = 3
    /\ DOMAIN cprCache = Icaos
    /\ result.ret.icao = IcaoKey(ICAO_A)
    /\ result.via = "global"
    /\ result.ret.data.cprOddEven = 1
    /\ cprCache[IcaoKey(ICAO_A)].even.time = 0
    /\ cprCache[IcaoKey(ICAO_B)].odd.time = 10000
    /\ cprCache[IcaoKey(ICAO_A)] = solo[IcaoKey(ICAO_A)][IcaoKey(ICAO_A)]

\* the candidate latitudes and the longitudes of the pair of the order experiment
OrderLatE == GlobalLatNum(GlobalLatIndex(pairIn.even.lat, pairIn.odd.lat), 60, pairIn.even.lat)

OrderLatO == GlobalLatNum(GlobalLatIndex(pairIn.even.lat, pairIn.odd.lat), 59, pairIn.odd.lat)

\* C3 (as amended): for one even and one odd frame of an ICAO at most 10 s
\* apart and an empty cache entry, the two orders agree on whether the pair
\* decodes globally (both do when NL(latE) = NL(latO), else both return null),
\* but each returns the position of the frame supplied last: latitude latE
\* and the even frame's longitude in NL zones when the even frame is last,
\* latitude latO and the odd frame's longitude in NL - 1 zones when the odd
\* frame is last.
C3_LastFrameDecides ==
    (evenLast # Undefined /\ oddLast # Undefined) =>
        IF NL(OrderLatE, 60) = NL(OrderLatO, 59)
        THEN /\ evenLast.via = "global"
             /\ oddLast.via = "global"
             /\ evenLast.pos.lat = Angle(OrderLatE, 60 * CPR_SCALE)
             /\ oddLast.pos.lat = Angle(OrderLatO, 59 * CPR_SCALE)
             /\ evenLast.pos.lon = GlobalLon(NL(OrderLatE, 60), 0, pairIn.even.lon, pairIn.odd.lon)
             /\ oddLast.pos.lon = GlobalLon(NL(OrderLatO, 59), 1, pairIn.even.lon, pairIn.odd.lon)
        ELSE /\ evenLast = [pos |-> Null, via |-> "none"]
             /\ oddLast = [pos |-> Null, via |-> "none"]

\* C3 witness: both orders decoded the pair globally, 10 s apart, and returned
\* different positions
C3_Witness ==
    /\ evenLast # Undefined
    /\ oddLast # Undefined
    /\ pairIn.gap = 10000
    /\ evenLast.via = "global"
    /\ oddLast.via = "global"
    /\ evenLast.pos.lat # oddLast.pos.lat
    /\ evenLast.pos.lon # oddLast.pos.lon

\* C3 as the specification states it: decodeGlobal yields the same (lat, lon)
\* whichever of the two frames is supplied last.
C3_OrderIndependence ==
    (evenLast # Undefined /\ oddLast # Undefined) => evenLast.pos = oddLast.pos

\* C9 as the specification states it: two decoders with equal cache contents
\* and equal reference that are given the same hex return equal results,
\* whatever the time on the clock of each.
C9_Deterministic ==
    [][(nDecoded' = nDecoded + 1 /\ cprCache = cacheB) =>
          result'.ret = resultB'.ret]_vars

\* the cache without the receipt times: the stored even and odd CPR values
\* and the last resolved position of each ICAO
CacheContents(cache) ==
    LET Cpr(frame) == IF frame = NoFrame THEN NoFrame
                      ELSE [lat |-> frame.lat, lon |-> frame.lon]
    IN  [k \in DOMAIN cache |->
            [even |-> Cpr(cache[k].even), odd |-> Cpr(cache[k].odd),
             last |-> cache[k].last]]

\* C10 as the specification states it: the decoder's cache (CPR values and
\* last positions) is the one obtained by clearing it and decoding
\* messages[0 .. currentIndex-1] in order.
C10_CacheIsPrefixReplay ==
    CacheContents(cprCache)
        = CacheContents(DecodeRange(EmptyCache, refLat, refLon, now, messages,
                                    0, currentIndex))

-----------------------------------------------------------------------------
(* The codecs as functions of one call: the initial state draws the call, the
   actions make it *)

\* The calls of the model, in families.  Strings (given to decode and to
\* decodeMessage): frames of every downlink format with every type
\* code (and the low three bits of the first ME byte 0 or 1), the rest being
\* that of the even position frame of aircraft A.  Strings that are no
\* 28-digit upper-case frame: other lengths (0, 1, 13, 15, 27, 29, 56), the
\* 14-digit short frame, frames with blanks around them, blanks inside a
\* 28-character string, lower case, and characters that are no hex digits.
\* The decoder is new, or has decoded the odd position frame of aircraft A.
\* Altitudes: the frame of aircraft A with type code 11 (baro) and 20 (gnss)
\* and every 12-bit altitude field.  Round trips through the simulator: ICAOs
\* in both cases, every nic, altitudes on and between the 25 ft steps from
\* -1000 to 101374 ft, and positions at Shenzhen, the poles' corners and 0/0.
\* Velocities: type code 19 with every subtype, both directions and the raw
\* magnitudes 0, 1 and 1023.  Identifications: type codes 1 and 4 with the
\* callsign AAAAAAAA in which the first, the fourth or the last character is
\* replaced by each of the 64 codes, and the callsigns of 8 equal codes.
\* NIC: position frames of DF17/18 with every position type code, surveillance
\* status and NIC supplement.  CPR: a position frame decoded by a decoder that
\* has decoded a frame of the other format, both with CPR latitudes and
\* longitudes over the 17-bit range.  decodeLocal: frames over the same range
\* against references 360*r/64 degrees in all four quadrants (22.5/112.5,
\* 84.375/174.375, -45/-90, -5.625/-5.625 and 0/0).  NL: latitudes at 0, at
\* both sides of every step of NL, at 87 and at 90 degrees, of both signs.
Calls(family) ==
    LET FRAME_A == PositionHex(PosFields(17, ICAO_A, 11, 0, 0, 3160, 0, 61781, 49327))
        FrameHex(df, typeCode, sub) ==
            ToHex(df * 8 + 5, 2) \o ToHex(ICAO_A, 6) \o ToHex(typeCode * 8 + sub, 2)
              \o SubSeq(FRAME_A, 11, 28)
        DispatchFrames ==
            {FrameHex(df, typeCode, sub) :
                df \in 0..31, typeCode \in 0..31, sub \in {0, 1}}
        LowerString(digits) ==
            [i \in 1..Len(digits) |->
                IF digits[i] >= 10 THEN << "a", "b", "c", "d", "e", "f" >>[digits[i] - 9]
                ELSE HexChars[digits[i] + 1]]
        S == HexString(FRAME_A)
        Blank == <<" ">>
        OddStrings ==
            { << >>, SubSeq(S, 1, 1), SubSeq(S, 1, 13), SubSeq(S, 1, 14),
              SubSeq(S, 1, 15), SubSeq(S, 1, 27), S \o <<"0">>, S \o S,
              Blank \o S, S \o Blank, Blank \o S \o Blank,
              Blank \o SubSeq(S, 1, 14), SubSeq(S, 1, 14) \o Blank \o Blank,
              Blank \o SubSeq(S, 1, 26) \o Blank, SubSeq(S, 1, 27) \o Blank,
              Blank \o SubSeq(S, 1, 12) \o Blank, SubSeq(S, 1, 13) \o Blank,
              [i \in 1..28 |-> " "], [i \in 1..14 |-> " "],
              [i \in 1..28 |-> "G"], [i \in 1..14 |-> "G"],
              [S EXCEPT ![5] = "G"], [S EXCEPT ![5] = " "],
              [i \in 1..14 |-> IF i = 14 THEN "G" ELSE S[i]],
              LowerString(FRAME_A), Blank \o LowerString(FRAME_A),
              LowerString(FrameHex(18, 21, 0)), <<"G">>, Blank }
        EntryStrings == {HexString(f) : f \in DispatchFrames} \cup OddStrings
        CodecCaches ==
            { EmptyCache,
              decode(EmptyCache, Deg4(DEFAULT_REF_LAT), Deg4(DEFAULT_REF_LON), 0,
                     PositionHex(PosFields(17, ICAO_A, 20, 1, 1, 440, 1, 56358, 8006))).cache }
        AltitudeFrames ==
            {PositionHex(PosFields(17, ICAO_A, typeCode, 0, 0, altBits, 0, 61781, 49327)) :
                typeCode \in {11, 20}, altBits \in 0..4095}
        VelocityHex(sub, ewDir, ewRaw, nsDir, nsRaw) ==
            ToHex(17 * 8 + 5, 2) \o ToHex(ICAO_A, 6) \o ToHex(19 * 8 + sub, 2)
              \o ToHex(ewDir * 4 + (ewRaw \div 256), 2) \o ToHex(ewRaw % 256, 2)
              \o ToHex(nsDir * 128 + (nsRaw \div 8), 2) \o ToHex((nsRaw % 8) * 32, 2)
              \o ToHex(18, 4) \o ToHex(0, 6)
        VelocityFrames ==
            {VelocityHex(sub, ewDir, ewRaw, nsDir, nsRaw) :
                sub \in 0..7, ewDir \in {0, 1}, ewRaw \in {0, 1, 1023},
                nsDir \in {0, 1}, nsRaw \in {0, 1, 1023}}
        RateHex(sub, vrSign, vrRaw) ==
            SubSeq(VelocityHex(sub, 0, 5, 1, 5), 1, 18)
              \o ToHex(vrSign * 1024 + vrRaw * 2, 4) \o ToHex(0, 6)
        CprFrame(oddEven, cprLat, cprLon) ==
            PositionHex(PosFields(17, ICAO_A, 11, 0, 0, 3160, oddEven, cprLat, cprLon))
        CprSamples ==
            {0, 1, 8192, 32768, 56358, 61781, 65536, 91750, 98304, 131071}
        IdentHex(typeCode, codes) ==
            ToHex(17 * 8 + 5, 2) \o ToHex(ICAO_A, 6) \o ToHex(typeCode * 8 + 3, 2)
              \o ToHex(codes[1] * 64 + codes[2], 3) \o ToHex(codes[3] * 64 + codes[4], 3)
              \o ToHex(codes[5] * 64 + codes[6], 3) \o ToHex(codes[7] * 64 + codes[8], 3)
              \o ToHex(0, 6)
        IdentFrames ==
            {IdentHex(typeCode, [i \in 1..8 |-> IF i = k \/ k = 0 THEN code ELSE 1]) :
                typeCode \in {1, 4}, k \in {0, 1, 4, 8}, code \in 0..63}
    IN  CASE family = "strings" ->
                {[op |-> "decode", hexMsg |-> s, cache |-> c] :
                    s \in EntryStrings, c \in CodecCaches}
          [] family = "altitudes" ->
                {[op |-> "decode", hexMsg |-> HexString(f), cache |-> EmptyCache] :
                    f \in AltitudeFrames}
          [] family = "payloads" ->
                {[op |-> "decode", hexMsg |-> HexString(f), cache |-> EmptyCache] :
                    f \in VelocityFrames \cup IdentFrames}
          [] family = "decodeMessage" ->
                {[op |-> family, hexMsg |-> s, cache |-> EmptyCache] : s \in EntryStrings}
          [] family = "roundTrip" ->
                {[op |-> family, icao |-> icao, lat |-> p[1], lng |-> p[2],
                  alt |-> alt, nic |-> nic, cache |-> EmptyCache] :
                    icao \in { <<"7", "8", "0", "0", "0", "0">>,
                               <<"A", "B", "C", "D", "E", "F">>,
                               <<"a", "b", "c", "d", "e", "f">>,
                               <<"0", "0", "0", "0", "0", "1">> },
                    p \in { <<225431, 1140579>>, <<-900000, -1800000>>,
                            <<900000, 1800000>>, <<0, 0>> },
                    alt \in {-1000, -988, -987, 0, 10000, 10012, 10013, 10024, 101374},
                    nic \in 0..11}
          [] family = "verticalRate" ->
                {[op |-> "decode", hexMsg |-> HexString(RateHex(sub, vrSign, vrRaw)),
                  cache |-> EmptyCache] :
                    sub \in {1, 3}, vrSign \in {0, 1}, vrRaw \in 0..511}
          [] family = "positions" ->
                {[op |-> "roundTrip", icao |-> <<"7", "8", "0", "0", "0", "0">>,
                  lat |-> lat, lng |-> lng, alt |-> 10000, nic |-> 9,
                  cache |-> EmptyCache] :
                    lat \in {-900000, -899990, -225431, -1, 0, 14, 225431, 450000,
                             899990, 900000},
                    lng \in {-1800000, -1799990, -1140579, -1, 0, 14, 1140579,
                             1799990, 1800000}}
          [] family = "meOnly" ->
                {[op |-> "decode", cache |-> c,
                  hexMsg |-> HexString(SubSeq(f, 9, 22))] :
                    f \in {FrameHex(17, typeCode, sub) : typeCode \in 0..31, sub \in {0, 1}}
                           \cup {VelocityHex(1, 0, 5, 1, 5)},
                    c \in CodecCaches}
          [] family = "nic" ->
                {[op |-> "decode", cache |-> c,
                  hexMsg |-> HexString(PositionHex(PosFields(df, ICAO_A, typeCode, ss,
                                 nicSupB, 3160, oddEven, 61781, 49327)))] :
                    df \in {17, 18}, typeCode \in (9..18) \cup (20..22), ss \in 0..3,
                    nicSupB \in {0, 1}, oddEven \in {0, 1}, c \in CodecCaches}
          [] family = "cpr" ->
                {[op |-> "decode",
                  hexMsg |-> HexString(CprFrame(oddEven, lat, lon)),
                  cache |-> decode(EmptyCache, Deg4(DEFAULT_REF_LAT), Deg4(DEFAULT_REF_LON),
                                   0, CprFrame(1 - oddEven, lat2, lon2)).cache] :
                    oddEven \in {0, 1}, lat \in CprSamples, lat2 \in CprSamples,
                    lon \in {0, 49327, 131071}, lon2 \in {0, 49327, 131071}}
          [] family = "decodeLocal" ->
                {[op |-> family, cprLat |-> lat, cprLon |-> lon, oddEven |-> oddEven,
                  refLat |-> Angle(r[1], 64), refLon |-> Angle(r[2], 64),
                  cache |-> EmptyCache] :
                    oddEven \in {0, 1}, lat \in CprSamples, lon \in {0, 49327, 131071},
                    r \in { <<4, 20>>, <<-4, 20>>, <<4, -20>>, <<-4, -20>>, <<0, 0>>,
                            <<-1, -1>>, <<-8, -16>>, <<15, 31>>, <<-15, -31>> }}
          [] family = "NL" ->
                {[op |-> family, n |-> sign * (n + d), z |-> z, cache |-> EmptyCache] :
                    sign \in {1, -1}, d \in {0, 1}, z \in {60, 59},
                    n \in {0, 15 * CPR_SCALE, 1900543}
                           \cup {NLTableEven[k] : k \in 1..58}
                           \cup {NLTableOdd[k] : k \in 1..58}}

\* a decoder that holds the cache of the call, and the call to make
InitCodec ==
    /\ \E family \in {"strings", "altitudes", "payloads", "decodeMessage", "roundTrip",
                      "nic", "cpr", "decodeLocal", "NL", "verticalRate",
                      "meOnly", "positions"} :
          callIn \in Calls(family)
    /\ callOut = Undefined
    /\ cprCache = callIn.cache
    /\ refLat = Deg4(DEFAULT_REF_LAT)
    /\ refLon = Deg4(DEFAULT_REF_LON)
    /\ now = 0
    /\ result = NoResult
    /\ nDecoded = 0
    /\ seen = SeenNone
    /\ solo = SoloNone
    /\ OrderIdle /\ SecondInit /\ EngineInit /\ SessionIdle

\* RealAdsbDecoder.decode(hexMsg) on a string
CallDecode ==
    /\ callOut = Undefined
    /\ callIn.op = "decode"
    /\ LET Set(r) == cprCache' = r.cache /\ callOut' = r.ret
       IN  Set(RealAdsbDecoder_decode(cprCache, refLat, refLon, now, callIn.hexMsg))
    /\ UNCHANGED <<refLat, refLon, now, result, nDecoded, seen, solo>>
    /\ UNCHANGED <<orderVars, secondVars, engineVars, callIn, sessionVars, observedVars>>

\* AdsbDecoder.decodeMessage(hexMsg) on a string
CallDecodeMessage ==
    /\ callOut = Undefined
    /\ callIn.op = "decodeMessage"
    /\ callOut' = decodeMessage(callIn.hexMsg)
    /\ UNCHANGED <<decoderVars, orderVars, secondVars, engineVars, callIn, sessionVars, observedVars>>

\* AdsbDecoder.decodeMessage(AdsbSimulator.generatePositionMessage(icao, lat,
\* lng, alt, nic))
CallRoundTrip ==
    /\ callOut = Undefined
    /\ callIn.op = "roundTrip"
    /\ callOut' = decodeMessage(generatePositionMessage(callIn.icao, callIn.lat,
                                    callIn.lng, callIn.alt, callIn.nic))
    /\ UNCHANGED <<decoderVars, orderVars, secondVars, engineVars, callIn, sessionVars, observedVars>>

\* CPRDecoder.decodeLocal(icao, cprLat, cprLon, oddEven, refLat, refLon)
CallDecodeLocal ==
    /\ callOut = Undefined
    /\ callIn.op = "decodeLocal"
    /\ LET Set(r) == cprCache' = r.cache /\ callOut' = [pos |-> r.pos]
       IN  Set(decodeLocal(cprCache, ICAO_A, callIn.cprLat, callIn.cprLon,
                           callIn.oddEven, callIn.refLat, callIn.refLon, now))
    /\ UNCHANGED <<refLat, refLon, now, result, nDecoded, seen, solo>>
    /\ UNCHANGED <<orderVars, secondVars, engineVars, callIn, sessionVars, observedVars>>

\* CPRDecoder.NL(lat) for lat = 360*n/(z*131072) degrees
CallNL ==
    /\ callOut = Undefined
    /\ callIn.op = "NL"
    /\ callOut' = [value |-> NL(callIn.n, callIn.z)]
    /\ UNCHANGED <<decoderVars, orderVars, secondVars, engineVars, callIn, sessionVars, observedVars>>

NextCodec ==
    \/ CallDecode
    \/ CallDecodeMessage
    \/ CallRoundTrip
    \/ CallDecodeLocal
    \/ CallNL

SpecCodec == InitCodec /\ [][NextCodec]_vars

\* the call was made
Called(op) == callOut # Undefined /\ callIn.op = op

\* the digits of the 112-bit frame a string is, if it is one
IsFrame(s) == Len(s) = 28 /\ ~BigIntThrows(ParseHex(s))

\* C11: no exception escapes a decode call, for any 112-bit frame and for any
\* string: neither RealAdsbDecoder.decode nor AdsbDecoder.decodeMessage ends
\* by throwing
C11_NoExceptionEscapes == callOut # SyntaxError

\* RealAdsbDecoder.decode ends by returning, for any string
C11_DecodeNeverThrows == Called("decode") => callOut # SyntaxError

\* AdsbDecoder.decodeMessage ends by returning for every 112-bit frame
C11_FramesNeverThrow ==
    Called("decodeMessage") /\ IsFrame(callIn.hexMsg) => callOut # SyntaxError


\* C12: a string whose length is not accepted is rejected whole.
\* RealAdsbDecoder.decode measures the length after trimming white space: a
\* string whose trimmed length is neither 14 nor 28 gives null and leaves the
\* CPR cache as it was.  AdsbDecoder.decodeMessage gives null for every string
\* whose length is not 28.
C12_LengthGate ==
    /\ Called("decode") /\ Len(TrimRight(TrimLeft(callIn.hexMsg))) \notin {14, 28}
          => callOut = Null /\ cprCache = callIn.cache
    /\ Called("decodeMessage") /\ Len(callIn.hexMsg) # 28 => callOut = Null

\* a string of 27 digits, rejected by a decoder whose cache holds a frame
C12_Witness ==
    /\ Called("decode")
    /\ Len(callIn.hexMsg) = 27
    /\ callIn.cache # EmptyCache
    /\ callOut = Null
    /\ cprCache = callIn.cache

\* C12 as stated: null and an unchanged cache for every string whose length is
\* neither 14 nor 28
C12_RawLengthGate ==
    (Called("decode") \/ Called("decodeMessage")) /\ Len(callIn.hexMsg) \notin {14, 28}
        => callOut = Null /\ cprCache = callIn.cache


\* the fields of a frame of 28 hex digits, read off its characters: DF is the
\* first five bits, the ICAO characters 3 to 8 in upper case, the type code
\* bits 33 to 37, the low three bits of the first ME byte (the subtype of a
\* velocity frame), the 12-bit altitude field of a position frame, and the
\* two 10-bit magnitudes of a velocity frame (ME bits 41..32 and 30..21)
FrameFields(s) ==
    [df |-> 2 * DigitOf(s[1]) + (DigitOf(s[2]) \div 8),
     icao |-> [i \in 1..6 |-> UpperChar(s[2 + i])],
     typeCode |-> 2 * DigitOf(s[9]) + (DigitOf(s[10]) \div 8),
     sub |-> DigitOf(s[10]) % 8,
     altBits |-> 256 * DigitOf(s[11]) + 16 * DigitOf(s[12]) + DigitOf(s[13]),
     ewRaw |-> 256 * (DigitOf(s[12]) % 4) + 16 * DigitOf(s[13]) + DigitOf(s[14]),
     nsRaw |-> 8 * ((16 * DigitOf(s[15]) + DigitOf(s[16])) % 128)
                 + (DigitOf(s[17]) \div 2)]

PayloadKind(ret) == IF ret.data = Null THEN "null" ELSE ret.data.type

\* C14: dispatch by type code, for every accepted frame of 28 hex digits; the
\* result carries the frame's ICAO as 6 upper-case hex characters.
\* RealAdsbDecoder.decode (DF17/18): 1-4 gives an identification, 9-18 a
\* position with altitudeType baro, 20-22 a position with altitudeType gnss,
\* 19 what decodeAirborneVelocity returns (a velocity or null), and every
\* other type code data null.  AdsbDecoder.decodeMessage (DF17): 9-18 gives a
\* position, 19 a velocity, and every other type code, 1-4 and 20-22
\* included, data null.
C14_Dispatch ==
    LET Real(f, ret) ==
            /\ HexString(ret.icao) = f.icao
            /\ f.typeCode \in 1..4 => PayloadKind(ret) = "identification"
            /\ f.typeCode \in 9..18 =>
                  PayloadKind(ret) = "position" /\ ret.data.altitudeType = "baro"
            /\ f.typeCode = 19 => PayloadKind(ret) \in {"velocity", "null"}
            /\ f.typeCode \in 20..22 =>
                  PayloadKind(ret) = "position" /\ ret.data.altitudeType = "gnss"
            /\ f.typeCode \in {0} \cup (5..8) \cup (23..31) => PayloadKind(ret) = "null"
        Simple(f, ret) ==
            /\ HexString(ret.icao) = f.icao
            /\ f.typeCode \in 9..18 => PayloadKind(ret) = "position"
            /\ f.typeCode = 19 => PayloadKind(ret) = "velocity"
            /\ f.typeCode \notin 9..19 => PayloadKind(ret) = "null"
    IN  /\ Called("decode") /\ IsFrame(callIn.hexMsg) /\ callOut # Null
              => Real(FrameFields(callIn.hexMsg), callOut)
        /\ Called("decodeMessage") /\ IsFrame(callIn.hexMsg) /\ callOut # Null
              => Simple(FrameFields(callIn.hexMsg), callOut)

\* a DF18 frame with type code 21 given in lower case: a gnss position with
\* the ICAO in upper case
C14_Witness ==
    /\ Called("decode")
    /\ IsFrame(callIn.hexMsg)
    /\ callIn.hexMsg # HexString(ParseHex(callIn.hexMsg))
    /\ FrameFields(callIn.hexMsg).typeCode = 21
    /\ callOut # Null
    /\ PayloadKind(callOut) = "position"
    /\ callOut.data.altitudeType = "gnss"
    /\ HexString(callOut.icao) = HexString(ToHex(ICAO_A, 6))

\* C14 as stated: for every decoder 1-4 gives an identification, 9-18 a baro
\* position, 19 a velocity, 20-22 a gnss position, the rest data null
C14_KindByTypeCode ==
    LET Kind(f, ret) ==
            /\ f.typeCode \in 1..4 => PayloadKind(ret) = "identification"
            /\ f.typeCode \in (9..18) \cup (20..22) => PayloadKind(ret) = "position"
            /\ f.typeCode = 19 => PayloadKind(ret) = "velocity"
            /\ f.typeCode \in {0} \cup (5..8) \cup (23..31) => PayloadKind(ret) = "null"
    IN  (Called("decode") \/ Called("decodeMessage")) /\ callOut # SyntaxError
            /\ IsFrame(callIn.hexMsg)
            /\ callOut # Null
          => Kind(FrameFields(callIn.hexMsg), callOut)


\* a call of RealAdsbDecoder.decode on a DF17/18 frame of 28 hex digits with
\* one of the given type codes, which returned a payload of the given kind
FrameCall(typeCodes, kind) ==
    /\ Called("decode")
    /\ IsFrame(callIn.hexMsg)
    /\ FrameFields(callIn.hexMsg).df \in {17, 18}
    /\ FrameFields(callIn.hexMsg).typeCode \in typeCodes
    /\ callOut # Null
    /\ PayloadKind(callOut) = kind


\* C15: binary altitude.  The 12-bit altitude field of a barometric position
\* frame holds, with Q = 1, an 11-bit number n: its upper 7 bits in bits 11..5
\* of the field, Q in bit 4 and its lower 4 bits in bits 3..0.  For every n in
\* 0..2047 the frame whose field encodes n decodes to the altitude n*25 - 1000.
C15_BinaryAltitude ==
    LET Field(n) == (n \div 16) * 32 + 16 + (n % 16)
        Holds(altBits, altitude) ==
            \A n \in 0..2047 : Field(n) = altBits => altitude = n * 25 - 1000
    IN  FrameCall(9..18, "position") =>
            Holds(FrameFields(callIn.hexMsg).altBits, callOut.data.altitude)

\* the largest code: n = 2047 decodes to 50175 ft
C15_Witness ==
    /\ FrameCall(9..18, "position")
    /\ FrameFields(callIn.hexMsg).altBits = 4095
    /\ callOut.data.altitude = 2047 * 25 - 1000

\* C15 as stated: every n in 0..4095, the field keeping the low 12 bits of
\* the encoding
C15_AllCodes ==
    LET Field(n) == ((n \div 16) * 32 + 16 + (n % 16)) % 4096
        Holds(altBits, altitude) ==
            \A n \in 0..4095 : Field(n) = altBits => altitude = n * 25 - 1000
    IN  FrameCall(9..18, "position") =>
            Holds(FrameFields(callIn.hexMsg).altBits, callOut.data.altitude)


\* the Gray-decoded C group (bits 11, 9, 7) and D group (bits 3, 1, 0) of an
\* altitude field; the field is a Gillham code when its Q bit is 0 (bit 4 of
\* the field, as decodeAirbornePosition tests it)
GillhamGroups(altBits) ==
    [c |-> grayToBinary(4 * Bit(altBits, 11) + 2 * Bit(altBits, 9) + Bit(altBits, 7), 3),
     d500 |-> grayToBinary(4 * Bit(altBits, 3) + 2 * Bit(altBits, 1) + Bit(altBits, 0), 3)]

\* C16: for the Gray-decoded C group c of every Gillham altitude field, the
\* rule 'c <= 4 -> c*100, else (8-c)*100' gives the same increment as the
\* lookup table gillham100Table, and decodeGillham adds that increment
C16_RuleEqualsTable ==
    LET Holds(g, altitude) ==
            /\ (IF g.c <= 4 THEN g.c * 100 ELSE (8 - g.c) * 100) = gillham100Table[g.c + 1]
            /\ altitude = GillhamValid(g.d500 * 500 + gillham100Table[g.c + 1] - 1300)
    IN  FrameCall(9..18, "position")
            /\ Bit(FrameFields(callIn.hexMsg).altBits, 4) = 0 =>
            Holds(GillhamGroups(FrameFields(callIn.hexMsg).altBits),
                  callOut.data.altitude)

\* decodeGillham adds the increment of the rule
C16_RuleIsAdded ==
    LET Holds(g, altitude) ==
            altitude = GillhamValid(g.d500 * 500
                          + (IF g.c <= 4 THEN g.c * 100 ELSE (8 - g.c) * 100) - 1300)
    IN  FrameCall(9..18, "position")
            /\ Bit(FrameFields(callIn.hexMsg).altBits, 4) = 0 =>
            Holds(GillhamGroups(FrameFields(callIn.hexMsg).altBits),
                  callOut.data.altitude)

\* C17: for every altitude field with Q = 0 decodeGillham returns the sentinel
\* 0 or the value idx*500 + inc - 1300, which then lies within [-1200, 126700];
\* it returns the sentinel exactly when that value is out of range, and so for
\* the all-zero field, which computes -1300
C17_GillhamRange ==
    LET Value(g) == g.d500 * 500 + (IF g.c <= 4 THEN g.c * 100 ELSE (8 - g.c) * 100) - 1300
        Holds(altBits, v, altitude) ==
            /\ altitude = 0 \/ (altitude = v /\ altitude >= -1200 /\ altitude <= 126700)
            /\ v < -1200 \/ v > 126700 => altitude = 0
            /\ altBits = 0 => v = -1300 /\ altitude = 0
    IN  FrameCall(9..18, "position")
            /\ Bit(FrameFields(callIn.hexMsg).altBits, 4) = 0 =>
            Holds(FrameFields(callIn.hexMsg).altBits,
                  Value(GillhamGroups(FrameFields(callIn.hexMsg).altBits)),
                  callOut.data.altitude)

\* the all-zero altitude field decodes to the sentinel
C17_Witness ==
    /\ FrameCall(9..18, "position")
    /\ Bit(FrameFields(callIn.hexMsg).altBits, 4) = 0
    /\ FrameFields(callIn.hexMsg).altBits = 0
    /\ callOut.data.altitude = 0


\* C18: the simulator round trip.  decodeMessage(generatePositionMessage(icao,
\* lat, lng, alt, nic)) returns the ICAO in upper case, a position with the
\* nic that was encoded, and the altitude rounded down to the 25 ft step:
\* altitude <= alt < altitude + 25.  (780000, 22.5431, 114.0579, 10000, 9)
\* gives nic 9 and altitude 10000.
C18_RoundTrip ==
    Called("roundTrip") =>
        /\ callOut # Null /\ callOut # SyntaxError
        /\ HexString(callOut.icao) = [i \in 1..6 |-> UpperChar(callIn.icao[i])]
        /\ PayloadKind(callOut) = "position"
        /\ callOut.data.nic = callIn.nic
        /\ callOut.data.altitude <= callIn.alt
        /\ callIn.alt < callOut.data.altitude + 25
        /\ callOut.data.altitude = 25 * FloorDiv(callIn.alt + 1000, 25) - 1000
        /\ callIn.alt = 10000 /\ callIn.nic = 9 =>
              callOut.data.nic = 9 /\ callOut.data.altitude = 10000

\* the end-to-end scenario
C18_Witness ==
    /\ Called("roundTrip")
    /\ callIn.icao = <<"7", "8", "0", "0", "0", "0">>
    /\ callIn.lat = 225431 /\ callIn.lng = 1140579
    /\ callIn.alt = 10000 /\ callIn.nic = 9
    /\ HexString(callOut.icao) = callIn.icao
    /\ callOut.data.nic = 9
    /\ callOut.data.altitude = 10000

\* C18 as stated: the altitude is within 12.5 ft of alt
C18_WithinHalfStep ==
    Called("roundTrip") =>
        /\ callOut # Null /\ callOut # SyntaxError
        /\ HexString(callOut.icao) = [i \in 1..6 |-> UpperChar(callIn.icao[i])]
        /\ PayloadKind(callOut) = "position"
        /\ callOut.data.nic = callIn.nic
        /\ 2 * Abs(callOut.data.altitude - callIn.alt) <= 25


\* C19: a frame with type code 19 gives a velocity struct exactly when the
\* subtype is 1 or 2 and both raw 10-bit magnitudes are not 0, or the subtype
\* is 3 or 4; otherwise it gives {icao, data: null}
C19_VelocityAvailability ==
    LET Holds(f, ret) ==
            /\ ret # Null
            /\ PayloadKind(ret) \in {"velocity", "null"}
            /\ PayloadKind(ret) = "velocity" <=>
                  \/ f.sub \in {1, 2} /\ f.ewRaw # 0 /\ f.nsRaw # 0
                  \/ f.sub \in {3, 4}
            /\ HexString(ret.icao) = f.icao
    IN  Called("decode") /\ IsFrame(callIn.hexMsg)
            /\ FrameFields(callIn.hexMsg).df \in {17, 18}
            /\ FrameFields(callIn.hexMsg).typeCode = 19
          => Holds(FrameFields(callIn.hexMsg), callOut)

\* a ground-speed frame whose east-west magnitude alone is 0: data null
C19_Witness ==
    /\ Called("decode")
    /\ IsFrame(callIn.hexMsg)
    /\ FrameFields(callIn.hexMsg).df = 17
    /\ FrameFields(callIn.hexMsg).typeCode = 19
    /\ FrameFields(callIn.hexMsg).sub = 2
    /\ FrameFields(callIn.hexMsg).ewRaw = 0
    /\ FrameFields(callIn.hexMsg).nsRaw = 1023
    /\ callOut # Null
    /\ PayloadKind(callOut) = "null"


\* C20: the callsign of every identification frame has at most 8 characters
\* and consists only of A-Z, 0-9 and interior spaces: a code of an unused
\* charset entry is rendered as a space or trimmed
C20_CallsignCharacters ==
    LET Letters == {Charset[i] : i \in (2..27) \cup (49..58)}
        Holds(callsign) ==
            /\ Len(callsign) <= 8
            /\ \A i \in 1..Len(callsign) : callsign[i] \in Letters \cup {" "}
            /\ callsign # << >> => callsign[1] # " " /\ callsign[Len(callsign)] # " "
    IN  FrameCall(1..4, "identification") => Holds(callOut.data.callsign)

\* the callsign has at most 8 characters, those of the charset entries of the
\* frame's codes, and no space at either end
C20_CallsignTrimmed ==
    LET Holds(callsign) ==
            /\ Len(callsign) <= 8
            /\ \A i \in 1..Len(callsign) : \E k \in 1..64 : callsign[i] = Charset[k]
            /\ callsign # << >> => callsign[1] # " " /\ callsign[Len(callsign)] # " "
    IN  FrameCall(1..4, "identification") => Holds(callOut.data.callsign)


-----------------------------------------------------------------------------
(* CPR zone function and NIC *)

C25_PositionInRange ==
    LET InRange(lat, lng) ==
            /\ 4 * Abs(lat.num) <= lat.den
            /\ -lng.den < 2 * lng.num /\ 2 * lng.num <= lng.den
    IN  /\ FrameCall((9..18) \cup (20..22), "position")
              /\ ~(callOut.data.lat = Angle(0, 1) /\ callOut.data.lng = Angle(0, 1))
           => InRange(callOut.data.lat, callOut.data.lng)
        /\ Called("decodeLocal") /\ callOut.pos # Null
           => InRange(callOut.pos.lat, callOut.pos.lon)

\* the latitude decodeLocal returns is within -90..90
C25_LocalLatInRange ==
    Called("decodeLocal") /\ callOut.pos # Null
       => 4 * Abs(callOut.pos.lat.num) <= callOut.pos.lat.den


\* C26: decodeLocal resolves a frame to the position nearest the reference:
\* for every reference, negative coordinates included, the returned latitude
\* is within half a latitude zone of refLat and the returned longitude within
\* half a longitude zone of refLon (the longitudes compared modulo 360
\* degrees).  The reference is 360*r/64 degrees, the latitude 360*n/(z*131072)
\* and the longitude 360*n/(ni*131072); half a zone is 65536 on these grids.
C26_WithinHalfZone ==
    LET Near(num, ref, zones) ==
            LET d == (num - ref.num * (64 \div ref.den) * zones * 2048) % (zones * CPR_SCALE)
            IN  d <= 65536 \/ d >= zones * CPR_SCALE - 65536
        OnGrid(a, zones) == a.num * ((zones * CPR_SCALE) \div a.den)
        Holds(pos, z) ==
            /\ Abs(OnGrid(pos.lat, z) - callIn.refLat.num * (64 \div callIn.refLat.den) * z * 2048)
                 <= 65536
            /\ LET ni == Max(NL(OnGrid(pos.lat, z), z) - callIn.oddEven, 1)
               IN  Near(OnGrid(pos.lon, ni), callIn.refLon, ni)
    IN  Called("decodeLocal") /\ callOut.pos # Null
            => Holds(callOut.pos, LatZones(callIn.oddEven))

\* with a reference whose coordinates are not negative the position is within
\* half a zone of it, and with any reference within one and a half zones
C26_NonNegativeReference ==
    LET Near(num, ref, zones, halves) ==
            LET d == (num - ref.num * (64 \div ref.den) * zones * 2048) % (zones * CPR_SCALE)
            IN  d <= halves * 65536 \/ d >= zones * CPR_SCALE - halves * 65536
        OnGrid(a, zones) == a.num * ((zones * CPR_SCALE) \div a.den)
        Holds(pos, z, halves) ==
            /\ Abs(OnGrid(pos.lat, z) - callIn.refLat.num * (64 \div callIn.refLat.den) * z * 2048)
                 <= halves * 65536
            /\ LET ni == Max(NL(OnGrid(pos.lat, z), z) - callIn.oddEven, 1)
               IN  Near(OnGrid(pos.lon, ni), callIn.refLon, ni, halves)
    IN  Called("decodeLocal") /\ callOut.pos # Null
            => Holds(callOut.pos, LatZones(callIn.oddEven),
                     IF callIn.refLat.num >= 0 /\ callIn.refLon.num >= 0 THEN 1 ELSE 3)

\* handleReceivedMessage(hex) for a message of a simulation source: recorded
\* while recording, then decoded and shown
HandleLive(hex, source) ==
    /\ mode = "recording" => Len(recorder.events) <= MaxRecorded
    /\ recorder' = IF mode = "recording"
                   THEN AdsbRecorder_recordMessage(recorder, hex, wallClock)
                   ELSE recorder
    /\ passed' = IF mode = "recording" THEN Append(passed, hex) ELSE passed
    /\ aircrafts' = Display(aircrafts, hex)
    /\ UNCHANGED trajectories
    /\ appliedBy' = source
    /\ UNCHANGED <<replayEngine, wallClock, mode, simulationInterval, tauriUnlisten,
                   playbackCurrentTime, storage, delivered, finishCount, nCommands,
                   stoppedAt>>
    /\ UNCHANGED codecVars

\* the front-end timer fires: processSignal generates a message
ProcessSignal ==
    /\ simulationInterval # Null
    /\ \E hex \in LiveMessages : HandleLive(hex, "timer")

\* the Rust backend emits adsb-batch: handleRustAdsbBatch
HandleRustAdsbBatch ==
    /\ tauriUnlisten # Null
    /\ \E hex \in LiveMessages : HandleLive(hex, "backend")

\* the button "start recording"; the model makes one recording
StartRecording ==
    /\ mode = "simulation"
    /\ storage = Null
    /\ mode' = "recording"
    /\ recorder' = AdsbRecorder_startRecording(recorder, wallClock)
    /\ passed' = << >>
    /\ UNCHANGED <<replayEngine, wallClock, simulationInterval, tauriUnlisten, aircrafts,
                   trajectories,
                   playbackCurrentTime, storage, delivered, finishCount, nCommands,
                   stoppedAt, appliedBy>>
    /\ UNCHANGED codecVars

\* the button "stop recording": the session goes to the storage
StopRecording ==
    /\ mode = "recording"
    /\ LET Set(r) == recorder' = r.recorder /\ storage' = r.session
       IN  Set(AdsbRecorder_stopRecording(recorder, wallClock))
    /\ mode' = "simulation"
    /\ UNCHANGED <<replayEngine, wallClock, simulationInterval, tauriUnlisten, aircrafts,
                   trajectories,
                   playbackCurrentTime, delivered, finishCount, nCommands, stoppedAt,
                   appliedBy>>
    /\ UNCHANGED <<passed, codecVars>>

\* loadRecordingFile with a file at hand or with the stored session
LoadRecordingFile ==
    /\ mode = "simulation"
    /\ \E session \in RecordingFiles \cup ({storage} \ {Null}) :
          replayEngine' = ReplayEngine_loadSession(replayEngine, session)
    /\ mode' = "replay"
    /\ simulationInterval' = Null
    /\ aircrafts' = {}
    /\ trajectories' = NoTrajectories
    /\ appliedBy' = "clear"
    /\ delivered' = << >>
    /\ finishCount' = 0
    /\ stoppedAt' = Null
    /\ UNCHANGED <<recorder, wallClock, tauriUnlisten, playbackCurrentTime, storage,
                   nCommands>>
    /\ UNCHANGED <<passed, codecVars>>

\* playReplay
PlayReplay ==
    /\ mode = "replay"
    /\ replayEngine.state # "playing"
    /\ nCommands < MaxCommands
    /\ nCommands' = nCommands + 1
    /\ replayEngine' = ReplayEngine_play(replayEngine, wallClock)
    /\ UNCHANGED <<recorder, wallClock, mode, simulationInterval, tauriUnlisten, aircrafts,
                   trajectories,
                   playbackCurrentTime, storage, delivered, finishCount, stoppedAt,
                   appliedBy>>
    /\ UNCHANGED <<passed, codecVars>>

\* pauseReplay, and onSeekStart
PauseReplay ==
    /\ mode = "replay"
    /\ replayEngine.state = "playing"
    /\ nCommands < MaxCommands
    /\ nCommands' = nCommands + 1
    /\ replayEngine' = ReplayEngine_pause(replayEngine, wallClock)
    /\ UNCHANGED <<recorder, wallClock, mode, simulationInterval, tauriUnlisten, aircrafts,
                   trajectories,
                   playbackCurrentTime, storage, delivered, finishCount, stoppedAt,
                   appliedBy>>
    /\ UNCHANGED <<passed, codecVars>>

\* stopReplay; stoppedAt keeps the playback time and the event index at which
\* a running replay was stopped
StopReplay ==
    /\ mode = "replay"
    /\ nCommands < MaxCommands
    /\ nCommands' = nCommands + 1
    /\ stoppedAt' = IF replayEngine.state = "playing"
                    THEN [time |-> PlaybackTime(replayEngine, wallClock),
                          index |-> replayEngine.currentEventIndex]
                    ELSE stoppedAt
    /\ replayEngine' = ReplayEngine_stop(replayEngine)
    /\ aircrafts' = {}
    /\ trajectories' = NoTrajectories
    /\ appliedBy' = "clear"
    /\ UNCHANGED <<recorder, wallClock, mode, simulationInterval, tauriUnlisten,
                   playbackCurrentTime, storage, delivered, finishCount>>
    /\ UNCHANGED <<passed, codecVars>>

\* onSeekInput: seekTo and rebuildStateToTime
OnSeekInput ==
    /\ mode = "replay"
    /\ nCommands < MaxCommands
    /\ nCommands' = nCommands + 1
    /\ \E targetTime \in SeekTargets(replayEngine.session) :
          /\ replayEngine' = ReplayEngine_seekTo(replayEngine, targetTime, wallClock)
          /\ aircrafts' = DisplayAll({}, ReplayEngine_getEventsUpTo(replayEngine, targetTime))
          /\ trajectories' = TraceAll(NoTrajectories,
                                      ReplayEngine_getEventsUpTo(replayEngine, targetTime))
    /\ playbackCurrentTime' = ReplayEngine_currentTime(replayEngine', wallClock)
    /\ appliedBy' = "rebuild"
    /\ stoppedAt' = Null
    /\ UNCHANGED <<recorder, wallClock, mode, simulationInterval, tauriUnlisten, storage,
                   delivered, finishCount>>
    /\ UNCHANGED <<passed, codecVars>>

\* changeSpeed
ChangeSpeed ==
    /\ mode = "replay"
    /\ nCommands < MaxCommands
    /\ nCommands' = nCommands + 1
    /\ \E speed \in Speeds :
          replayEngine' = ReplayEngine_setSpeed(replayEngine, speed, wallClock)
    /\ UNCHANGED <<recorder, wallClock, mode, simulationInterval, tauriUnlisten, aircrafts,
                   trajectories,
                   playbackCurrentTime, storage, delivered, finishCount, stoppedAt,
                   appliedBy>>
    /\ UNCHANGED <<passed, codecVars>>

\* backToSimulation
BackToSimulation ==
    /\ mode = "replay"
    /\ nCommands < MaxCommands
    /\ nCommands' = nCommands + 1
    /\ replayEngine' = ReplayEngine_stop(replayEngine)
    /\ aircrafts' = {}
    /\ trajectories' = NoTrajectories
    /\ appliedBy' = "clear"
    /\ mode' = "simulation"
    /\ simulationInterval' = SimulationTimer
    /\ stoppedAt' = Null
    /\ UNCHANGED <<recorder, wallClock, tauriUnlisten, playbackCurrentTime, storage,
                   delivered, finishCount>>
    /\ UNCHANGED <<passed, codecVars>>

\* the animation frame requested by scheduleNextEvent runs processEvents; the
\* callbacks hand each message to handleReceivedMessage, the time to
\* playbackCurrentTime, and count the finish
ProcessEvents ==
    /\ replayEngine.animationFrameId # Null
    /\ LET Set(r) ==
            /\ replayEngine' = r.engine
            /\ delivered' = delivered \o r.messages
            /\ aircrafts' = DisplayAll(aircrafts, r.messages)
            /\ trajectories' = TraceAll(trajectories, r.messages)
            /\ appliedBy' = IF r.messages # << >> THEN "replay" ELSE appliedBy
            /\ playbackCurrentTime' =
                  IF r.ran THEN PlaybackTime(replayEngine, wallClock)
                  ELSE playbackCurrentTime
            /\ finishCount' = finishCount + (IF r.finished THEN 1 ELSE 0)
       IN  Set(ReplayEngine_processEvents(replayEngine, wallClock))
    /\ UNCHANGED <<recorder, wallClock, mode, simulationInterval, tauriUnlisten, storage,
                   nCommands, stoppedAt>>
    /\ UNCHANGED <<passed, codecVars>>

\* time passes: one frame.  The clock of the model stands still in simulation
\* mode, where nothing reads it, and stops at MaxFrames frames, except while a
\* replay has not reached the end of its session
ClockAdvances ==
    /\ mode # "simulation"
    /\ \/ wallClock < MaxFrames * FRAME_MS
       \/ /\ replayEngine.state = "playing"
          /\ PlaybackTime(replayEngine, wallClock) < 2 * replayEngine.session.duration
    /\ wallClock' = wallClock + FRAME_MS
    /\ UNCHANGED <<recorder, replayEngine, mode, simulationInterval, tauriUnlisten,
                   aircrafts, trajectories, playbackCurrentTime, storage, delivered,
                   finishCount,
                   nCommands, stoppedAt, appliedBy>>
    /\ UNCHANGED <<passed, codecVars>>

\* replay of recording files: every command of the replay panel
NextPlayback ==
    \/ LoadRecordingFile
    \/ PlayReplay
    \/ PauseReplay
    \/ StopReplay
    \/ OnSeekInput
    \/ ChangeSpeed
    \/ BackToSimulation
    \/ ProcessEvents
    \/ ProcessSignal
    \/ HandleRustAdsbBatch
    \/ ClockAdvances

InitSession ==
    /\ SessionInit
    /\ DecoderInit /\ OrderIdle /\ SecondInit /\ EngineInit /\ CallIdle

SpecPlayback == InitSession /\ [][NextPlayback]_vars

\* record, then replay: a recording is made, stored, loaded and played
NextRecording ==
    \/ StartRecording
    \/ StopRecording
    \/ LoadRecordingFile
    \/ PlayReplay
    \/ ProcessEvents
    \/ ProcessSignal
    \/ HandleRustAdsbBatch
    \/ ClockAdvances

SpecRecording == InitSession /\ [][NextRecording]_vars

\* loadRecordingFile from the file button of the panel that shows it in every
\* mode (part_000), pressed during a replay: loadSession, then the same
\* clearing as after the first load
LoadRecordingWhileReplaying ==
    /\ mode = "replay"
    /\ nCommands < MaxCommands
    /\ nCommands' = nCommands + 1
    /\ \E session \in RecordingFiles \cup ({storage} \ {Null}) :
          replayEngine' = ReplayEngine_loadSession(replayEngine, session)
    /\ aircrafts' = {}
    /\ trajectories' = NoTrajectories
    /\ appliedBy' = "clear"
    /\ delivered' = << >>
    /\ finishCount' = 0
    /\ stoppedAt' = Null
    /\ UNCHANGED <<recorder, wallClock, mode, simulationInterval, tauriUnlisten,
                   playbackCurrentTime, storage>>
    /\ UNCHANGED <<passed, codecVars>>

\* the replay panel with the file button in every mode
NextReload ==
    \/ LoadRecordingFile
    \/ LoadRecordingWhileReplaying
    \/ PlayReplay
    \/ PauseReplay
    \/ StopReplay
    \/ OnSeekInput
    \/ ChangeSpeed
    \/ BackToSimulation
    \/ ProcessEvents
    \/ ProcessSignal
    \/ HandleRustAdsbBatch
    \/ ClockAdvances

SpecReload == InitSession /\ [][NextReload]_vars

\* the browser runs a requested frame, and time passes
SpecRecordingFair ==
    SpecRecording /\ WF_vars(ProcessEvents) /\ WF_vars(ClockAdvances)


-----------------------------------------------------------------------------
(* Recording and replay *)

\* C27: the round trip of a recording.  For the session stopRecording returned
\* and stored, loaded into the replay engine and played from idle, with no
\* seek, stop or reload: the replay reaches the state finished, and has by
\* then handed to the message callback exactly the hex strings passed to
\* recordMessage between startRecording and stopRecording, each once,
\* unchanged, in the order of recording and with timestamps that never
\* decrease, and has called the finish callback once
C27_RoundTrip ==
    LET FirstPlay == /\ replayEngine.session # Null
                     /\ replayEngine.session = storage
                     /\ nCommands = 1
        Hex(events) == [k \in 1..Len(events) |-> events[k].hexMessage]
        Ordered(events) ==
            \A k \in 1..(Len(events) - 1) : events[k].timestamp <= events[k + 1].timestamp
    IN  /\ [](FirstPlay /\ replayEngine.state = "finished"
                 => /\ Hex(delivered) = passed
                    /\ Ordered(delivered)
                    /\ finishCount = 1)
        /\ [](FirstPlay /\ replayEngine.state = "playing"
                 => /\ Len(delivered) <= Len(passed)
                    /\ Hex(delivered) = SubSeq(passed, 1, Len(delivered))
                    /\ finishCount = 0)
        /\ (FirstPlay /\ replayEngine.state = "playing"
               ~> replayEngine.state = "finished")

\* a recording of two different messages has been replayed to the end
C27_Witness ==
    /\ replayEngine.session # Null
    /\ replayEngine.session = storage
    /\ nCommands = 1
    /\ replayEngine.state = "finished"
    /\ Len(passed) = 2
    /\ passed[1] # passed[2]
    /\ delivered[2].timestamp > delivered[1].timestamp
    /\ finishCount = 1


-----------------------------------------------------------------------------
(* The replay panel *)

\* C23: after stop() during a replay at playback time t > 0, the next play()
\* continues from t: the playback time just after it is t and delivery goes on
\* with the event that was next when the replay was stopped, so that no event
\* delivered before t is delivered again
C23_PlayContinuesAfterStop ==
    [][ /\ PlayReplay
        /\ replayEngine.state = "idle"
        /\ stoppedAt # Null
        /\ stoppedAt.time > 0
        => /\ PlaybackTime(replayEngine', wallClock) = stoppedAt.time
           /\ replayEngine'.currentEventIndex = stoppedAt.index ]_vars


\* C24: while the mode is replay, the displayed aircraft set changes only
\* through the loaded recording (a message the replay engine delivers, the
\* rebuild of a seek) or by being cleared: no live message of the front-end
\* timer or of the backend's adsb-batch event is applied
C24_ReplayShowsOnlyRecording ==
    [][ mode = "replay" /\ aircrafts' # aircrafts
        => appliedBy' \in {"replay", "rebuild", "clear"} ]_vars

\* the front-end timer is stopped by loadRecordingFile: in replay mode no
\* message of processSignal is applied
C24_TimerStopped ==
    [][ mode = "replay" => ~ProcessSignal ]_vars


\* the engine after a seek that leaves it in e, at the instant it plays: e
\* itself when it is playing, else e after play()
Resumed(e) ==
    IF e.state = "playing" THEN e ELSE ReplayEngine_play(e, wallClock)

\* seekTo(timeMs) from the states in From at the speeds in At lands on the
\* clamped target: the playback time at that instant is min(max(timeMs, 0),
\* duration) and the next event is the first with a timestamp >= that time
SeekLands(From, At) ==
    /\ OnSeekInput
    /\ replayEngine.state \in From
    /\ replayEngine.playbackSpeed \in At
    => \A timeMs \in SeekTargets(replayEngine.session) :
          LET targetTime == Max(0, Min(timeMs, replayEngine.session.duration))
          IN  replayEngine' = ReplayEngine_seekTo(replayEngine, timeMs, wallClock)
              => /\ PlaybackTime(Resumed(replayEngine'), wallClock) = 2 * targetTime
                 /\ Resumed(replayEngine').currentEventIndex =
                       FindIndex(replayEngine.session.events, targetTime)

\* C28: after seekTo(t), followed by play() if the engine is not playing, the
\* playback time at that instant is min(max(t, 0), duration) and delivery
\* continues with the first event whose timestamp is >= that time, at every
\* speed and from the states idle, playing and paused
C28_SeekLandsOnTarget ==
    [][ SeekLands({"idle", "playing", "paused"}, Speeds) ]_vars

\* at the speed 1x a seek from playing or paused lands on the target
C28_SeekAtNormalSpeed ==
    [][ SeekLands({"playing", "paused"}, {2}) ]_vars


\* setSpeed in state playing keeps the playback time
SpeedKeepsPlaying ==
    ChangeSpeed /\ replayEngine.state = "playing"
    => PlaybackTime(replayEngine', wallClock) = PlaybackTime(replayEngine, wallClock)

\* setSpeed in state paused keeps the playback time at which play() resumes
SpeedKeepsPaused ==
    ChangeSpeed /\ replayEngine.state = "paused"
    => PlaybackTime(Resumed(replayEngine'), wallClock) =
          PlaybackTime(Resumed(replayEngine), wallClock)

\* C29: setSpeed never changes the playback position, for all old and new
\* speeds: in state playing the playback time just after setSpeed(s) is the
\* playback time just before it, and in state paused play() after setSpeed(s)
\* resumes at the playback time at which it would have resumed before
C29_SpeedKeepsPosition ==
    [][ SpeedKeepsPlaying /\ SpeedKeepsPaused ]_vars

\* in state playing setSpeed keeps the playback time
C29_PlayingKeepsPosition ==
    [][ SpeedKeepsPlaying ]_vars

\* pause() keeps the position: play() right after it resumes at the playback
\* time of the pause
C29_PauseKeepsPosition ==
    [][ PauseReplay
        => PlaybackTime(Resumed(replayEngine'), wallClock) =
              PlaybackTime(replayEngine, wallClock) ]_vars


\* C30: pause() followed by play() loses and repeats nothing and the reported
\* position is continuous across it, at every speed: the currentTime of
\* getStatus() and of the progress callback just before pause(), while paused
\* and just after the resuming play() are equal (no wall time passes between
\* the calls), and the next event to deliver stays the same
C30_PositionContinuous ==
    [][ PauseReplay
        => /\ ReplayEngine_currentTime(replayEngine', wallClock) =
                 ReplayEngine_currentTime(replayEngine, wallClock)
           /\ ReplayEngine_currentTime(Resumed(replayEngine'), wallClock) =
                 ReplayEngine_currentTime(replayEngine, wallClock)
           /\ Resumed(replayEngine').currentEventIndex =
                 replayEngine.currentEventIndex ]_vars

\* pause() and the resuming play() keep the next event to deliver, and the
\* position reported after the resume is the one reported before the pause
C30_NothingLostOrRepeated ==
    [][ PauseReplay
        => /\ ReplayEngine_currentTime(Resumed(replayEngine'), wallClock) =
                 ReplayEngine_currentTime(replayEngine, wallClock)
           /\ replayEngine'.currentEventIndex = replayEngine.currentEventIndex
           /\ Resumed(replayEngine').currentEventIndex =
                 replayEngine.currentEventIndex ]_vars


-----------------------------------------------------------------------------
(* Vertical rate *)

\* the sign bit (ME bit 10) and the 9-bit raw value (ME bits 9..1) of the
\* vertical rate, read off the characters of a frame of 28 hex digits
RateFields(s) ==
    [vrSign |-> (DigitOf(s[20]) \div 4) % 2,
     vrRaw |-> 128 * (DigitOf(s[20]) % 4) + 8 * DigitOf(s[21]) + (DigitOf(s[22]) \div 2)]

\* a call of decode that returned a velocity struct
VelocityReturned ==
    /\ Called("decode")
    /\ IsFrame(callIn.hexMsg)
    /\ callOut # Null /\ callOut # SyntaxError
    /\ PayloadKind(callOut) = "velocity"

\* C38: for every velocity frame and every raw value 0..511 the sign of the
\* vertical rate agrees with the sign bit: never negative with the bit clear,
\* never positive with the bit set
C38_RateSignAgrees ==
    VelocityReturned =>
        /\ RateFields(callIn.hexMsg).vrSign = 0 => callOut.data.verticalRate >= 0
        /\ RateFields(callIn.hexMsg).vrSign = 1 => callOut.data.verticalRate <= 0

\* for the raw values 1..511 the rate is (raw - 1) * 64 ft/min with the sign
\* of the sign bit; the raw value 0 gives -64 with the bit clear and 64 with
\* the bit set
C38_RateFromRaw ==
    LET Holds(f, rate) ==
            /\ f.vrRaw >= 1 /\ f.vrSign = 0 => rate = (f.vrRaw - 1) * 64
            /\ f.vrRaw >= 1 /\ f.vrSign = 1 => rate = -((f.vrRaw - 1) * 64)
            /\ f.vrRaw = 0 => rate = (IF f.vrSign = 0 THEN -64 ELSE 64)
    IN  VelocityReturned => Holds(RateFields(callIn.hexMsg), callOut.data.verticalRate)


\* the raw value 0 with the sign bit clear: a velocity struct with rate -64
C38_Witness ==
    /\ VelocityReturned
    /\ RateFields(callIn.hexMsg).vrSign = 0
    /\ RateFields(callIn.hexMsg).vrRaw = 0
    /\ callOut.data.verticalRate = -64


-----------------------------------------------------------------------------
(* Input of 14 hex characters *)

\* a call of decode on a string of 14 hex digits
MeOnlyCall ==
    /\ Called("decode")
    /\ Len(callIn.hexMsg) = 14
    /\ ~BigIntThrows(ParseHex(callIn.hexMsg))

\* what decode returns for the DF17 frame of ICAO_A that carries the 14 hex
\* digits me as its ME field, from the cache c
AsFrame(c, me) ==
    RealAdsbDecoder_decode(c, refLat, refLon, now,
        <<"8", "D">> \o HexString(ToHex(ICAO_A, 6)) \o me
           \o <<"0", "0", "0", "0", "0", "0">>).ret

\* C37: a string of 14 hex characters is decoded as an ME field: the result
\* carries the data that decode returns for the DF17 frame of 28 characters
\* with that ME field, of the payload kind of the type code in its top 5 bits
C37_MeOnlyDecoded ==
    MeOnlyCall =>
        /\ callOut # Null
        /\ callOut.data = AsFrame(callIn.cache, callIn.hexMsg).data

\* what the code does with 14 hex characters: it reads them as the head of a
\* frame, with their top 5 bits as DF, and returns null unless these are 17 or
\* 18; then the ICAO is 000000, the type code is 0 and the data are null.  The
\* CPR cache is left as it was
C37_ReadAsFrameHead ==
    LET df(s) == 2 * DigitOf(s[1]) + (DigitOf(s[2]) \div 8)
    IN  MeOnlyCall =>
            /\ callOut = Null <=> df(callIn.hexMsg) \notin {17, 18}
            /\ callOut # Null =>
                  /\ callOut.icao = ToHex(0, 6)
                  /\ callOut.data = Null
            /\ cprCache = callIn.cache


-----------------------------------------------------------------------------
(* The simulator's position packing *)

\* the 17-bit values generatePositionMessage computes for a position given in
\* units of 1/10000 degree
Encoded(lat, lng) ==
    [lat |-> FloorMulDiv(lat + 900000, 131071, 1800000) % 131072,
     lng |-> FloorMulDiv(lng + 1800000, 131071, 3600000) % 131072]

\* the position AdsbDecoder.decodePosition derives from two 17-bit fields
FromFields(latField, lngField) ==
    [lat |-> Angle(2 * latField - 131071, 4 * 131071),
     lng |-> Angle(2 * lngField - 131071, 2 * 131071)]

\* a call that generated a position message and decoded it
PositionRoundTrip ==
    /\ Called("roundTrip")
    /\ callOut # Null /\ callOut # SyntaxError
    /\ PayloadKind(callOut) = "position"

\* C36: AdsbDecoder.decodePosition reads the 17-bit latitude and longitude
\* that generatePositionMessage wrote, for every lat in [-90, 90] and lng in
\* [-180, 180]: the decoded position is the one of latEncoded and lngEncoded
C36_FieldsReadAsWritten ==
    LET Holds(e) ==
            /\ callOut.data.lat = FromFields(e.lat, e.lng).lat
            /\ callOut.data.lng = FromFields(e.lat, e.lng).lng
    IN  PositionRoundTrip => Holds(Encoded(callIn.lat, callIn.lng))

\* what the code does: the two fields share payload bit 16, so that the
\* latitude read has its lowest bit set when lngEncoded >= 65536, and the
\* longitude read has bit 16 set when latEncoded is odd
C36_FieldsOverlap ==
    LET Shared(e) == IF e.lat % 2 = 1 \/ e.lng >= 65536 THEN 1 ELSE 0
        Holds(e) ==
            /\ callOut.data.lat =
                  FromFields(e.lat - (e.lat % 2) + Shared(e), e.lng).lat
            /\ callOut.data.lng =
                  FromFields(e.lat, (e.lng % 65536) + 65536 * Shared(e)).lng
    IN  PositionRoundTrip => Holds(Encoded(callIn.lat, callIn.lng))


-----------------------------------------------------------------------------
(* RealDataReplayEngine: state and termination *)

\* C39: after any sequence of loadMessages, setSpeed, play, pause, resume,
\* seek, seekToPercent, stop and timer ticks, 0 <= currentIndex <=
\* messages.length, the one interval timer is active exactly when isPlaying
\* and not isPaused, and isPaused is never true while isPlaying is false
C39_EngineInvariant ==
    /\ 0 <= currentIndex /\ currentIndex <= Len(messages)
    /\ playbackInterval # Null <=> isPlaying /\ ~isPaused
    /\ isPaused => isPlaying

\* the index stays within the messages, and the timer runs exactly when the
\* engine is playing and not paused
C39_IndexAndTimer ==
    /\ 0 <= currentIndex /\ currentIndex <= Len(messages)
    /\ playbackInterval # Null <=> isPlaying /\ ~isPaused

\* isPaused without isPlaying arises only by pause() on a stopped engine
C39_PausedWhileStopped ==
    [][ ~(isPaused /\ ~isPlaying) /\ (isPaused' /\ ~isPlaying')
        => Pause /\ ~isPlaying ]_vars


\* C35: RealDataReplayEngine playback terminates.  After play() with n >= 1
\* loaded messages and no further calls, with the interval timer firing: the
\* message callback is invoked for the messages from the index play() found
\* (0 directly after loadMessages) to n - 1, once each and in index order,
\* then the finished callback is invoked once, and the engine ends stopped
\* (not playing, not paused, no timer) with currentIndex 0 and an empty cache
C35_PlaybackTerminates ==
    LET n == Len(messages)
        Stopped == /\ ~isPlaying /\ ~isPaused /\ playbackInterval = Null
                   /\ currentIndex = 0
                   /\ cprCache = CPRDecoder_clearCache(cprCache)
    IN  /\ [](playedAt # Null /\ onFinishedCalls = 0
                 => /\ isPlaying /\ playbackInterval # Null
                    /\ onMessageCalls = SubSeq(messages, playedAt.index + 1, currentIndex))
        /\ [](playedAt # Null /\ onFinishedCalls # 0
                 => /\ onFinishedCalls = 1
                    /\ onMessageCalls = SubSeq(messages, playedAt.index + 1, n)
                    /\ Stopped)
        /\ [](playedAt = Null => onMessageCalls = << >> /\ onFinishedCalls = 0)
        /\ (playedAt # Null ~> onFinishedCalls = 1)

\* a replay of three messages, played from the start at one message per
\* batch, has ended
C35_Witness ==
    /\ playedAt # Null
    /\ playedAt.index = 0
    /\ Len(messages) = 3
    /\ messagesPerSecond = 1
    /\ onMessageCalls = messages
    /\ onFinishedCalls = 1
    /\ ~isPlaying /\ playbackInterval = Null /\ currentIndex = 0

\* C35 as stated: whenever the finished callback has been invoked, the
\* message callback has been invoked for every message 0..n-1
C35_AllMessagesDelivered ==
    onFinishedCalls = 1 => onMessageCalls = messages


-----------------------------------------------------------------------------
(* ReplayEngine: when the message callback runs *)

\* an animation frame that is still pending in state e would hand nothing to
\* the callbacks and leave the engine as it is
StaleFrame(e, t) ==
    LET Inert(r) == /\ r.messages = << >>
                    /\ ~r.ran /\ ~r.finished
                    /\ [r.engine EXCEPT !.animationFrameId = e.animationFrameId] = e
    IN  Inert(ReplayEngine_processEvents(e, t))

\* C32: the message callback runs only while the engine is 'playing': messages
\* are delivered only by a frame that finds the state 'playing', a frame that
\* runs in any other state (after pause, stop or the end of the session)
\* delivers nothing, and play() without a session changes nothing
C32_CallbackOnlyWhilePlaying ==
    /\ [](replayEngine.state # "playing" => StaleFrame(replayEngine, wallClock))
    /\ [](replayEngine.session = Null
            => /\ ReplayEngine_play(replayEngine, wallClock) = replayEngine
               /\ StaleFrame(replayEngine, wallClock)
               /\ delivered = << >>)
    /\ [][Len(delivered') > Len(delivered)
            => /\ replayEngine.state = "playing"
               /\ replayEngine.animationFrameId # Null
               /\ delivered' = delivered \o
                     ReplayEngine_processEvents(replayEngine, wallClock).messages]_vars

\* the replay is paused after a delivery, with a message due by the clock of
\* the playback and not yet delivered
C32_Witness ==
    /\ replayEngine.state = "paused"
    /\ replayEngine.animationFrameId = Null
    /\ delivered # << >>
    /\ replayEngine.currentEventIndex < Len(replayEngine.session.events)
    /\ 2 * replayEngine.session.events[replayEngine.currentEventIndex + 1].timestamp
          <= PlaybackTime(replayEngine, wallClock)


-----------------------------------------------------------------------------
(* ReplayEngine: loading a session *)

\* loadRecordingFile, from either panel
LoadsSession == LoadRecordingFile \/ LoadRecordingWhileReplaying

\* the engine after a load is not 'playing', and a frame that runs before the
\* next play() delivers nothing
AtRestAfterLoad ==
    /\ replayEngine'.state # "playing"
    /\ ReplayEngine_processEvents(replayEngine', wallClock').messages = << >>

\* C33: loading a session leaves the engine at rest, in whatever state
\* loadSession is called: the state afterwards is not 'playing' and no message
\* of the new session is delivered before play()
C33_LoadLeavesEngineAtRest == [][LoadsSession => AtRestAfterLoad]_vars

\* what the code does: a load leaves the state as it was, so the engine is at
\* rest after a load in every state but 'playing'
C33_LoadKeepsState ==
    [][LoadsSession
        => /\ replayEngine'.state = replayEngine.state
           /\ replayEngine'.animationFrameId = replayEngine.animationFrameId
           /\ (replayEngine.state # "playing" => AtRestAfterLoad)]_vars


-----------------------------------------------------------------------------
(* Map.vue: trajectories *)

\* the timestamps of a trajectory's points are strictly increasing
Increasing(points) == \A k \in 1..(Len(points) - 1) : points[k] < points[k + 1]

\* C34: the points of every trajectory are sorted by time, with strictly
\* increasing timestamps, after any sequence of replay operations
C34_TrajectoriesSorted == \A icao \in DOMAIN trajectories : Increasing(trajectories[icao])

\* what the code keeps: no two neighbouring points of a trajectory have the
\* same timestamp, and the points are sorted as long as the session has not
\* been played to its end and started again
C34_SortedInOnePass ==
    \A icao \in DOMAIN trajectories :
        /\ \A k \in 1..(Len(trajectories[icao]) - 1) :
              trajectories[icao][k] # trajectories[icao][k + 1]
        /\ finishCount = 0 => Increasing(trajectories[icao])


-----------------------------------------------------------------------------
(* Seek: the rebuild and the cursor *)

\* the message events the playback has behind it with the cursor at index
MessagesBefore(e, index) ==
    SelectSeq(SubSeq(e.session.events, 1, index),
              LAMBDA ev : ev.type = "message" /\ ev.hexMessage # << >>)

\* onSeekInput took the slider value t
SoughtTo(t) ==
    /\ OnSeekInput
    /\ replayEngine' = ReplayEngine_seekTo(replayEngine, t, wallClock)
    /\ trajectories' = TraceAll(NoTrajectories, ReplayEngine_getEventsUpTo(replayEngine, t))

\* C31: for every target time the message events the rebuild applies are
\* exactly the message events before the cursor that seekTo sets, so that
\* rebuild and playback together apply every message event exactly once
C31_RebuildMatchesCursor ==
    [][mode = "replay" => \A t \in SeekTargets(replayEngine.session) :
          SoughtTo(t)
            => ReplayEngine_getEventsUpTo(replayEngine, t)
                 = MessagesBefore(replayEngine', replayEngine'.currentEventIndex)]_vars

\* what the code keeps: no message event is skipped.  The events before the
\* cursor are the first events of the rebuild, and the rebuild applies in
\* addition the events at the cursor whose timestamp is the target's
C31_NothingSkipped ==
    [][mode = "replay" => \A t \in SeekTargets(replayEngine.session) :
          SoughtTo(t)
            => LET before == MessagesBefore(replayEngine', replayEngine'.currentEventIndex)
                   rebuilt == ReplayEngine_getEventsUpTo(replayEngine, t)
               IN  /\ Len(before) <= Len(rebuilt)
                   /\ SubSeq(rebuilt, 1, Len(before)) = before
                   /\ \A k \in (Len(before) + 1)..Len(rebuilt) :
                         rebuilt[k].timestamp = Max(0, Min(t, replayEngine.session.duration))]_vars

=============================================================================
